---- MODULE Spec2Model ----
(***************************************************************************)
(* A model of the cl_games terminal arcade collection: the frame loop and  *)
(* its input channel (main.rs), and the per-game update state machines     *)
(* (snake.rs, pong.rs, tetris.rs, space_invaders.rs) built on the geometry *)
(* kernel (point.rs).                                                      *)
(*                                                                         *)
(* f32 coordinates are modelled as fixed-point integers; each game section *)
(* names its scale.  Durations are integers in milliseconds.               *)
(***************************************************************************)
EXTENDS Integers, Sequences, FiniteSets, TLC

VARIABLES
    \* ---- main.rs: input channel and frame loop ----
    queue,          \* the mpsc channel's buffered key events, oldest first
    rxAlive,        \* the Receiver (stdin_chan) has not been dropped
    reader,         \* the background thread: [pc, key]
    mainpc,         \* the position of main()
    clock,          \* SystemTime::now()
    prev_time,      \* main's prev_time
    current_time,   \* main's current_time
    input,          \* what read_input returned in this iteration
    poll,           \* read_input's progress: [snapshot, result, consumed]
    game,           \* the active game instance: [id, over]
    iter,           \* what this iteration called: [updates, draws, updDt, drawDt, result, afterOver]
    readLog,        \* the key events the reader thread has read, in order
    sentLog,        \* the key events the reader thread has enqueued, in order
    \* ---- pong.rs ----
    pong,           \* the PongGame: [enemy, player, ball, score]
    pongObs,        \* what the last PongGame::update did (observation only)
    \* ---- tetris.rs ----
    tetris,         \* the TetrisGame
    tetrisObs,      \* what the last TetrisGame::update did (observation only)
    \* ---- snake.rs ----
    snake,          \* the SnakeGame
    snakeObs,       \* what the last SnakeGame::update did (observation only)
    \* ---- space_invaders.rs ----
    invaders,       \* the SpaceInvadersGame
    invadersObs,    \* what the last SpaceInvadersGame::update did (observation only)
    \* ---- pure functions ----
    call            \* one call of a pure function: [op, args, done, result]

loopVars == <<queue, rxAlive, reader, mainpc, clock, prev_time, current_time,
              input, poll, game, iter, readLog, sentLog>>

pongVars == <<pong, pongObs>>

tetrisVars == <<tetris, tetrisObs>>

snakeVars == <<snake, snakeObs>>

invadersVars == <<invaders, invadersObs>>

callVars == <<call>>

vars == <<loopVars, pongVars, tetrisVars, snakeVars, invadersVars, callVars>>

None == "None"

(***************************************************************************)
(* main.rs                                                                 *)
(***************************************************************************)

\* Bounds of the frame-loop model.
MaxEvents == 3      \* key events the reader thread reads in one behaviour
MaxTime == 3        \* the clock value after which no further frame starts
MaxGames == 2       \* game instances created in one behaviour

\* crossterm key codes the games distinguish.
KeyCodes == {"Up", "Down", "Left", "Right", "Esc", "q", "Space", "Other"}

\* The keys the frame-loop specification feeds the reader thread.
LoopKeys == {"Up", "Down"}

\* What crossterm::event::read() can return to the reader thread.
ReadResults == [type : {"Key"}, key : LoopKeys] \cup {[type |-> "Resize"], [type |-> "Err"]}

UpdateEvents == {"GameOver", "GameContinue"}

LoopInit ==
    /\ queue = <<>>
    /\ rxAlive = TRUE
    /\ reader = [pc |-> "read", key |-> None]
    /\ mainpc = "menu"
    /\ clock = 0
    /\ prev_time = 0
    /\ current_time = 0
    /\ input = None
    /\ poll = [snapshot |-> <<>>, result |-> None, consumed |-> 0]
    /\ game = [id |-> 0, over |-> FALSE]
    /\ iter = [updates |-> 0, draws |-> 0, updDt |-> 0, drawDt |-> 0,
               result |-> None, afterOver |-> FALSE]
    /\ readLog = <<>>
    /\ sentLog = <<>>

\* ---- spawn_stdin_channel: the reader thread ----

\* `if let Ok(Event::Key(key)) = read()`: only key events are forwarded.
ReaderForwards(r) == r.type = "Key"

ReaderStopsOnEmptyQueue(alive, q) == ~alive \/ q = <<>>

\* `Err(_) => break`: the send fails exactly when the receiver is gone.
SendFails(alive, q) == ~alive

\* The thread returns from the blocking read().
ReaderRead ==
    /\ reader.pc = "read"
    /\ Len(readLog) < MaxEvents
    /\ \E r \in ReadResults :
          IF ReaderForwards(r)
          THEN /\ reader' = [pc |-> "send", key |-> r.key]
               /\ readLog' = Append(readLog, r.key)
          ELSE /\ reader' = reader
               /\ readLog' = IF r.type = "Key" THEN Append(readLog, r.key) ELSE readLog
    /\ UNCHANGED <<queue, rxAlive, mainpc, clock, prev_time, current_time, input,
                   poll, game, iter, sentLog>>

\* tx.send(key): enqueue, or break out of the loop when the send fails.
ReaderSend ==
    /\ reader.pc = "send"
    /\ IF SendFails(rxAlive, queue)
       THEN /\ reader' = [reader EXCEPT !.pc = "done"]
            /\ UNCHANGED <<queue, sentLog>>
       ELSE /\ queue' = Append(queue, reader.key)
            /\ sentLog' = Append(sentLog, reader.key)
            /\ reader' = [pc |-> "read", key |-> None]
    /\ UNCHANGED <<rxAlive, mainpc, clock, prev_time, current_time, input, poll,
                   game, iter, readLog>>

\* ---- main: the menu ----

\* read_game_choice returned a game: construct it and take prev_time.
MenuChoose ==
    /\ mainpc = "menu"
    /\ game.id < MaxGames
    /\ game' = [id |-> game.id + 1, over |-> FALSE]
    /\ prev_time' = clock
    /\ iter' = [updates |-> 0, draws |-> 0, updDt |-> 0, drawDt |-> 0,
                result |-> None, afterOver |-> iter.afterOver]
    /\ mainpc' = "frame"
    /\ UNCHANGED <<queue, rxAlive, reader, clock, current_time, input, poll,
                   readLog, sentLog>>

\* MenuChoice::Exit: main returns and stdin_chan is dropped.
MenuExit ==
    /\ mainpc = "menu"
    /\ mainpc' = "exited"
    /\ rxAlive' = FALSE
    /\ UNCHANGED <<queue, reader, clock, prev_time, current_time, input, poll,
                   game, iter, readLog, sentLog>>

\* ---- main: 'game_loop ----

\* `let current_time = SystemTime::now()` and the screen clear.
FrameStart ==
    /\ mainpc = "frame"
    /\ clock < MaxTime
    /\ current_time' = clock
    /\ iter' = [iter EXCEPT !.updates = 0, !.draws = 0, !.result = None]
    /\ mainpc' = "poll"
    /\ UNCHANGED <<queue, rxAlive, reader, clock, prev_time, input, poll, game,
                   readLog, sentLog>>

RecvReturns(q) == q # <<>>

\* rx.try_recv() returns at once, whether or not the queue holds an event.
TryRecvReturns(q) == TRUE

FirstRecvLast(q) == IF q = <<>> THEN None ELSE q[Len(q)]

\* read_input's first try_recv: `Ok(input) => Some(input)`, `Empty => None`.
FirstRecv(q) == IF q = <<>> THEN None ELSE Head(q)

\* read_input, first rx.try_recv().
PollFirst ==
    /\ mainpc = "poll"
    /\ TryRecvReturns(queue)
    /\ poll' = [snapshot |-> queue, result |-> FirstRecv(queue),
                consumed |-> IF queue = <<>> THEN 0 ELSE 1]
    /\ queue' = IF queue = <<>> THEN queue ELSE Tail(queue)
    /\ mainpc' = "drain"
    /\ UNCHANGED <<rxAlive, reader, clock, prev_time, current_time, input, game,
                   iter, readLog, sentLog>>

\* read_input, "Skip all other inputs": `Ok(_) => {}`.
PollDrain ==
    /\ mainpc = "drain"
    /\ queue # <<>>
    /\ queue' = Tail(queue)
    /\ poll' = [poll EXCEPT !.consumed = @ + 1]
    /\ UNCHANGED <<rxAlive, reader, mainpc, clock, prev_time, current_time, input,
                   game, iter, readLog, sentLog>>

\* read_input, `Err(TryRecvError::Empty) => break`, then `result`.
PollReturn ==
    /\ mainpc = "drain"
    /\ queue = <<>>
    /\ TryRecvReturns(queue)
    /\ input' = poll.result
    /\ mainpc' = "update"
    /\ UNCHANGED <<queue, rxAlive, reader, clock, prev_time, current_time, poll,
                   game, iter, readLog, sentLog>>

LoopBreaksNever(ev) == FALSE

\* `if let game::UpdateEvent::GameOver = game.update(..) { break 'game_loop; }`
LoopBreaks(ev) == ev = "GameOver"

\* game.update(&read_input(..), &current_time.duration_since(prev_time))
CallUpdate ==
    /\ mainpc = "update"
    /\ \E ev \in UpdateEvents :
          /\ iter' = [iter EXCEPT !.updates = @ + 1,
                                  !.updDt = current_time - prev_time,
                                  !.result = ev,
                                  !.afterOver = @ \/ game.over]
          /\ game' = [game EXCEPT !.over = @ \/ (ev = "GameOver")]
          /\ mainpc' = IF LoopBreaks(ev) THEN "post" ELSE "draw"
    /\ UNCHANGED <<queue, rxAlive, reader, clock, prev_time, current_time, input,
                   poll, readLog, sentLog>>

\* game.draw(&mut stdout, &current_time.duration_since(prev_time))?
CallDraw ==
    /\ mainpc = "draw"
    /\ iter' = [iter EXCEPT !.draws = @ + 1,
                            !.drawDt = current_time - prev_time,
                            !.afterOver = @ \/ game.over]
    /\ mainpc' = "sleep"
    /\ UNCHANGED <<queue, rxAlive, reader, clock, prev_time, current_time, input,
                   poll, game, readLog, sentLog>>

\* thread::sleep(100 ms); prev_time = current_time.
SleepFrame ==
    /\ mainpc = "sleep"
    /\ \E d \in 1..2 : clock' = clock + d
    /\ prev_time' = current_time
    /\ mainpc' = "frame"
    /\ UNCHANGED <<queue, rxAlive, reader, current_time, input, poll, game, iter,
                   readLog, sentLog>>

\* The post-game screen: print the score, sleep 750 ms, wait for a key.
PostGame ==
    /\ mainpc = "post"
    /\ mainpc' = "menu"
    /\ UNCHANGED <<queue, rxAlive, reader, clock, prev_time, current_time, input,
                   poll, game, iter, readLog, sentLog>>


(***************************************************************************)
(* point.rs: the geometry kernel, on fixed-point coordinates               *)
(* A coordinate is an integer number of hundredths of a cell.              *)
(***************************************************************************)

Abs(a) == IF a < 0 THEN -a ELSE a

Sgn(a) == IF a < 0 THEN -1 ELSE IF a > 0 THEN 1 ELSE 0

\* a / b rounded to the nearest integer, halves away from zero (b > 0).
RoundDiv(a, b) == Sgn(a) * ((2 * Abs(a) + b) \div (2 * b))

\* f32::round of a fixed-point coordinate, as a whole number of cells.
Round(c) == Sgn(c) * ((Abs(c) + 50) \div 100)

Pt(x, y) == [x |-> x, y |-> y]

\* Point::cross
Cross(p, q) == p.x * q.y - p.y * q.x

\* impl Sub for Point
PtSub(p, q) == Pt(p.x - q.x, p.y - q.y)

\* impl Add for Point
PtAdd(p, q) == Pt(p.x + q.x, p.y + q.y)

\* Point::compare: both axis deltas strictly within epsilon (hundredths).
Compare(p, q, epsilon) == Abs(p.x - q.x) < epsilon /\ Abs(p.y - q.y) < epsilon

\* From<Point<GameBasis>> for Point<ScreenBasis>
ToScreen(p) == Pt(p.x * 2, p.y)

ScreenBoundsCheckSidesFirst(p, screen_width, screen_height) ==
    IF Round(p.x) < 0 THEN "Left"
    ELSE IF Round(p.x) > screen_width - 2 THEN "Right"
    ELSE IF Round(p.y) < 0 THEN "Top"
    ELSE IF Round(p.y) > screen_height THEN "Bottom"
    ELSE None

\* Point<ScreenBasis>::bounds_check; screen_width and screen_height in cells.
ScreenBoundsCheck(p, screen_width, screen_height) ==
    IF Round(p.y) < 0 THEN "Top"
    ELSE IF Round(p.y) > screen_height THEN "Bottom"
    ELSE IF Round(p.x) < 0 THEN "Left"
    ELSE IF Round(p.x) > screen_width - 2 THEN "Right"
    ELSE None

\* Point<GameBasis>::bounds_check
BoundsCheck(p, width, height) == ScreenBoundsCheck(ToScreen(p), width, height)

\* n / d lies in 0.0..=1.0 (d # 0).
InUnit(n, d) == IF d > 0 THEN 0 <= n /\ n <= d ELSE d <= n /\ n <= 0

IntersectsBeforeEnd(l, other) ==
    LET a == PtSub(l.end, l.begin)
        b == PtSub(other.end, other.begin)
        c == PtSub(other.begin, l.begin)
        det == Cross(a, b)
    IN  IF det = 0 THEN FALSE
        ELSE InUnit(Cross(c, b), det) /\ InUnit(Cross(c, a), det)
                /\ Cross(c, a) # det

\* Line::intersects; a line is [begin, end].  A determinant below
\* f32::EPSILON is a zero determinant at this resolution.
Intersects(l, other) ==
    LET a == PtSub(l.end, l.begin)
        b == PtSub(other.end, other.begin)
        c == PtSub(other.begin, l.begin)
        det == Cross(a, b)
    IN  IF det = 0 THEN FALSE
        ELSE InUnit(Cross(c, b), det) /\ InUnit(Cross(c, a), det)

(***************************************************************************)
(* pong.rs                                                                 *)
(* Positions in hundredths of a cell, velocities in hundredths per second. *)
(***************************************************************************)

\* Bounds of the Pong model.
MaxPongFrames == 3      \* updates in one behaviour

\* Terminal sizes (columns, rows) terminal::size() answers with.
PongTermSizes == {<<24, 16>>, <<20, 16>>}

\* Values rng.gen::<i32>() yields.
RngVals == {-10, 9}

\* Elapsed times of one frame, in milliseconds.
PongDeltas == {100, 500, 1000}

PongKeys == {None, "Left", "Right", "Esc"}

\* game::EXIT_BUTTON
EXIT_BUTTON == "Esc"

FROM_BOUNDS_INDENT == 5
DEFAULT_LENGTH == 5
PLAYER_SPEED == 200
ENEMY_SPEED == 2500
COLLISION_EXTRA_LENGTH == 100
MAX_INITIAL_SPEED == 1000
MIN_INITIAL_SPEED == 500
VELOCITY_X_SCALE == 3

\* v * delta_time.as_secs_f32()
MulDt(v, dt) == RoundDiv(v * dt, 1000)

\* velocity *= VELOCITY_Y_SCALE (1.1)
ScaleY(v) == RoundDiv(v * 11, 10)

\* Plank::new
Plank_new(w, y) == [position |-> Pt(w * 25, y * 100), length |-> DEFAULT_LENGTH]

Plank_bounds_check_left_only(plank, w) ==
    plank.position.x - plank.length * 50 > 0

\* Plank::bounds_check with next_position = None
Plank_bounds_check(plank, w) ==
    /\ plank.position.x - plank.length * 50 > 0
    /\ plank.position.x + plank.length * 50 < w * 50

InitialSpeedUnraised(r) == Sgn(r) * ((Abs(r) * 100) % MAX_INITIAL_SPEED)

\* One component of Ball::new's velocity from the i32 r:
\* `r as f32 % MAX`, raised to MIN in magnitude with the sign kept
\* (signum(0.0) = 1.0, signum(-0.0) = -1.0).
InitialSpeed(r) ==
    LET v == Sgn(r) * ((Abs(r) * 100) % MAX_INITIAL_SPEED)
    IN  IF Abs(v) < MIN_INITIAL_SPEED
        THEN (IF r < 0 THEN -MIN_INITIAL_SPEED ELSE MIN_INITIAL_SPEED)
        ELSE v

\* Ball::new
Ball_new(w, h, rx, ry) ==
    [position |-> Pt(w * 25, h * 50),
     velocity |-> Pt(InitialSpeed(rx), InitialSpeed(ry))]

\* PongGame::new
PongGame_new(w, h, rx, ry) ==
    [enemy |-> Plank_new(w, FROM_BOUNDS_INDENT),
     player |-> Plank_new(w, h - FROM_BOUNDS_INDENT - 1),
     ball |-> Ball_new(w, h, rx, ry),
     score |-> 0]

CollidesUnextended(plank_pos, plank_length, prev_ball_pos, ball_pos) ==
    Intersects([begin |-> Pt(plank_pos.x - plank_length * 50, plank_pos.y),
                end |-> Pt(plank_pos.x + plank_length * 50, plank_pos.y)],
               [begin |-> prev_ball_pos, end |-> ball_pos])

\* collides: the ball's path against the extended plank
Collides(plank_pos, plank_length, prev_ball_pos, ball_pos) ==
    LET plank == [begin |-> Pt(plank_pos.x - plank_length * 50 - COLLISION_EXTRA_LENGTH,
                               plank_pos.y),
                  end |-> Pt(plank_pos.x + plank_length * 50 + COLLISION_EXTRA_LENGTH,
                             plank_pos.y)]
        ball == [begin |-> prev_ball_pos, end |-> ball_pos]
    IN  Intersects(plank, ball)

\* update, "player input": a fixed step, reverted when out of the play width
MovePlayer(player, key, width) ==
    LET moved == [player EXCEPT !.position.x =
                     IF key = "Left" THEN @ - PLAYER_SPEED
                     ELSE IF key = "Right" THEN @ + PLAYER_SPEED ELSE @]
    IN  IF Plank_bounds_check(moved, width) THEN moved ELSE player

\* update, "enemy input": towards the ball's x, reverted when out of the play width
MoveEnemy(enemy, ball, dt, width) ==
    LET moved == [enemy EXCEPT !.position.x =
                     IF ball.position.x < enemy.position.x THEN @ - MulDt(ENEMY_SPEED, dt)
                     ELSE IF ball.position.x > enemy.position.x THEN @ + MulDt(ENEMY_SPEED, dt)
                     ELSE @]
    IN  IF Plank_bounds_check(moved, width) THEN moved ELSE enemy

WallBounceKeepsVx(vx) == vx

\* `self.ball.velocity.x *= -1.0` of the Left | Right arm
WallBounceVx(vx) == -vx

\* update, "ball": [ball, bounds, plankHit]
MoveBall(ball, enemy, player, dt, width, height) ==
    LET prev_position == ball.position
        proposed == Pt(prev_position.x + MulDt(ball.velocity.x, dt),
                       prev_position.y + MulDt(ball.velocity.y, dt))
        bounds == BoundsCheck(proposed, width, height)
        wall == bounds \in {"Left", "Right"}
        vx1 == IF wall THEN WallBounceVx(ball.velocity.x) ELSE ball.velocity.x
        pos1 == IF wall THEN Pt(prev_position.x, proposed.y) ELSE proposed
        plank == IF ball.velocity.y < 0 THEN enemy ELSE player
        hit == Collides(plank.position, plank.length, prev_position, pos1)
        vx2 == IF hit THEN vx1 + (pos1.x - plank.position.x) * VELOCITY_X_SCALE ELSE vx1
        vy2 == IF hit THEN ScaleY(-ball.velocity.y) ELSE ball.velocity.y
    IN  [ball |-> [position |-> Pt(prev_position.x + MulDt(vx2, dt),
                                   prev_position.y + MulDt(vy2, dt)),
                   velocity |-> Pt(vx2, vy2)],
         bounds |-> bounds,
         plankHit |-> hit,
         plankX |-> plank.position.x]

\* PongGame::update.  (width, height) is terminal::size() at the start of
\* the update, (w2, h2) the size reset_positions reads, rx and ry its rng.
PongGame_update(g, key, dt, width, height, w2, h2, rx, ry) ==
    IF key = EXIT_BUTTON
    THEN [game |-> g, event |-> "GameOver", bounds |-> None, plankHit |-> FALSE,
          plankX |-> 0]
    ELSE LET player == MovePlayer(g.player, key, width)
             enemy == MoveEnemy(g.enemy, g.ball, dt, width)
             mb == MoveBall(g.ball, enemy, player, dt, width, height)
             out == mb.bounds \in {"Top", "Bottom"}
         IN  [game |-> [enemy |-> enemy,
                        player |-> player,
                        ball |-> IF out THEN Ball_new(w2, h2, rx, ry) ELSE mb.ball,
                        score |-> IF mb.bounds = "Top" THEN g.score + 1
                                  ELSE IF mb.bounds = "Bottom" THEN g.score - 1
                                  ELSE g.score],
              event |-> "GameContinue",
              bounds |-> mb.bounds,
              plankHit |-> mb.plankHit,
              plankX |-> mb.plankX]

PongObsInit ==
    [frames |-> 0, event |-> None, bounds |-> None, plankHit |-> FALSE, plankX |-> 0,
     dt |-> 0, pre |-> Ball_new(0, 0, 9, 9), score |-> 0, reset |-> <<0, 0>>,
     size |-> <<24, 16>>,
     enemy |-> Plank_new(0, 0), player |-> Plank_new(0, 0),
     reverted |-> [player |-> FALSE, enemy |-> FALSE],
     start |-> <<24, 16>>, resized |-> FALSE]

PongIdle ==
    /\ pong = PongGame_new(24, 16, 9, 9)
    /\ pongObs = PongObsInit

PongInit ==
    \E size \in PongTermSizes, rx \in RngVals, ry \in RngVals :
       /\ pong = PongGame_new(size[1], size[2], rx, ry)
       /\ pongObs = [PongObsInit EXCEPT !.size = size, !.start = size]

\* One frame: PongGame::update with this frame's key, elapsed time and
\* terminal size; reset_positions' own terminal-size query and rng draws
\* matter only when the ball left through the top or the bottom.
PongUpdate ==
    /\ pongObs.frames < MaxPongFrames
    /\ pongObs.event # "GameOver"
    /\ \E key \in PongKeys, dt \in PongDeltas, size \in PongTermSizes :
         \E probe \in {PongGame_update(pong, key, dt, size[1], size[2],
                                       size[1], size[2], 9, 9)} :
            \E rs \in (IF probe.bounds \in {"Top", "Bottom"}
                       THEN PongTermSizes \X RngVals \X RngVals
                       ELSE {<<size, 9, 9>>}) :
               \E r \in {IF probe.bounds \in {"Top", "Bottom"}
                          THEN PongGame_update(pong, key, dt, size[1], size[2],
                                               rs[1][1], rs[1][2], rs[2], rs[3])
                          ELSE probe} :
                  /\ pong' = r.game
                  /\ pongObs' = [frames |-> pongObs.frames + 1, event |-> r.event,
                                 bounds |-> r.bounds, plankHit |-> r.plankHit,
                                 plankX |-> r.plankX, dt |-> dt, pre |-> pong.ball,
                                 score |-> pong.score, reset |-> rs[1],
                                 size |-> size,
                                 enemy |-> r.game.enemy, player |-> r.game.player,
                                 \* a plank that was to move and is where it was
                                 reverted |->
                                    [player |-> /\ key \in {"Left", "Right"}
                                                /\ r.game.player = pong.player,
                                     enemy |-> /\ key # EXIT_BUTTON
                                               /\ pong.ball.position.x # pong.enemy.position.x
                                               /\ r.game.enemy = pong.enemy],
                                 \* the terminal size PongGame::new saw, and whether
                                 \* an update has seen another one since
                                 start |-> pongObs.start,
                                 resized |-> pongObs.resized \/ size # pongObs.start]

(***************************************************************************)
(* tetris.rs                                                               *)
(* Coordinates in hundredths of a cell; a rotation is a number of quarter  *)
(* turns (the code adds PI / 2 per Up key and starts from 0.0).            *)
(***************************************************************************)

\* Bounds of the Tetris model.
MaxTetrisFrames == 3    \* updates in one behaviour

HEIGHT == 20
WIDTH == 10
TO_DESCEND_SLOW == 200
TO_DESCEND_FAST == 50
MINIMUM_USER_INPUT_DISTANCE == 125
LOSE_LINE == 100

INIT_FIGURE_POS == Pt(300, 0)

FigureTypes == {"Square", "Line", "L", "LMirrored", "Z", "ZMirrored", "T"}

TetrisKeys == {None, "Left", "Right", "Up", "Down"}

\* Elapsed times of one frame, in milliseconds.
TetrisDeltas == {130, 210}

\* POINTS_AND_PIVOTS: the four template points of a type
Points(t) ==
    CASE t = "Square"    -> <<Pt(0, 0), Pt(100, 0), Pt(0, 100), Pt(100, 100)>>
      [] t = "Line"      -> <<Pt(0, 0), Pt(100, 0), Pt(200, 0), Pt(300, 0)>>
      [] t = "L"         -> <<Pt(0, 0), Pt(0, 100), Pt(100, 100), Pt(200, 100)>>
      [] t = "LMirrored" -> <<Pt(0, 100), Pt(100, 100), Pt(200, 100), Pt(200, 0)>>
      [] t = "Z"         -> <<Pt(0, 0), Pt(100, 0), Pt(100, 100), Pt(200, 100)>>
      [] t = "ZMirrored" -> <<Pt(0, 100), Pt(100, 100), Pt(100, 0), Pt(200, 0)>>
      [] t = "T"         -> <<Pt(0, 0), Pt(100, 0), Pt(200, 0), Pt(100, 100)>>

\* POINTS_AND_PIVOTS: the pivot of a type
Pivot(t) ==
    CASE t = "Square"    -> Pt(50, 50)
      [] t = "Line"      -> Pt(150, 50)
      [] t = "L"         -> Pt(100, 100)
      [] t = "LMirrored" -> Pt(100, 100)
      [] t = "Z"         -> Pt(100, 0)
      [] t = "ZMirrored" -> Pt(100, 0)
      [] t = "T"         -> Pt(100, 0)

\* FigureType::get_color
GetColor(t) ==
    CASE t = "Square"    -> "Yellow"
      [] t = "Line"      -> "Cyan"
      [] t = "L"         -> "Orange"
      [] t = "LMirrored" -> "Blue"
      [] t = "Z"         -> "Red"
      [] t = "ZMirrored" -> "Green"
      [] t = "T"         -> "Purple"

RotateThird(p, k) ==
    CASE k % 3 = 0 -> Pt(p.x, p.y)
      [] k % 3 = 1 -> Pt(-p.y, p.x)
      [] k % 3 = 2 -> Pt(-p.x, -p.y)

\* (x cos r - y sin r, x sin r + y cos r) for r = k quarter turns
RotateQuarter(p, k) ==
    CASE k % 4 = 0 -> Pt(p.x, p.y)
      [] k % 4 = 1 -> Pt(-p.y, p.x)
      [] k % 4 = 2 -> Pt(-p.x, -p.y)
      [] k % 4 = 3 -> Pt(p.y, -p.x)

AppliedRotationPivotDropped(figure, rotation, position) ==
    [i \in 1..4 |->
        PtAdd(RotateQuarter(PtSub(Points(figure.figure_type)[i], Pivot(figure.figure_type)),
                            rotation),
              position)]

\* Figure::applied_rotation_and_position
AppliedRotationAndPosition(figure, rotation, position) ==
    LET pivot == Pivot(figure.figure_type)
    IN  [i \in 1..4 |->
            PtAdd(PtAdd(RotateQuarter(PtSub(Points(figure.figure_type)[i], pivot), rotation),
                        pivot),
                  position)]

\* `f32 as usize`: a saturating cast
AsUsize(v) == IF v < 0 THEN 0 ELSE v

\* p.y.round() as usize, p.x.round() as usize
Row(p) == AsUsize(Round(p.y))
Col(p) == AsUsize(Round(p.x))

EmptyBoard == [r \in 0..(HEIGHT - 1) |-> [c \in 0..(WIDTH - 1) |-> None]]

\* TetrisGame::is_line_ready
IsLineReady(board, row_num) == \A c \in 0..(WIDTH - 1) : board[row_num][c] # None

\* TetrisGame::new; cur and next are the types gen_figure drew
TetrisGame_new(cur, next) ==
    [board |-> EmptyBoard,
     current_figure |-> [figure_type |-> cur, rotation |-> 0],
     current_figure_position |-> INIT_FIGURE_POS,
     next_figure |-> [figure_type |-> next, rotation |-> 0],
     score |-> 0,
     to_descend |-> TO_DESCEND_SLOW,
     from_prev_descend |-> 0,
     is_tetris_was_last |-> FALSE,
     last_user_input |-> None,
     from_last_user_input |-> 0]

OverlapsWhole(g) ==
    LET cells == AppliedRotationAndPosition(g.current_figure, g.current_figure.rotation,
                                            g.current_figure_position)
    IN  \A i \in 1..4 : g.board[Row(cells[i])][Col(cells[i])] # None

\* update, "Game over handle": a cell of the figure is already occupied
Overlaps(g) ==
    LET cells == AppliedRotationAndPosition(g.current_figure, g.current_figure.rotation,
                                            g.current_figure_position)
    IN  \E i \in 1..4 : g.board[Row(cells[i])][Col(cells[i])] # None

DescendIntervalResetWithoutKey(to_descend, key) ==
    IF key = "Down" THEN TO_DESCEND_FAST ELSE TO_DESCEND_SLOW

\* update, "Descend faster": inside `if let Some(input) = input`
DescendInterval(to_descend, key) ==
    IF key = None THEN to_descend
    ELSE IF key = "Down" THEN TO_DESCEND_FAST
    ELSE TO_DESCEND_SLOW

CanMoveOntoOccupied(g, new_rotation, new_position) ==
    LET cells == AppliedRotationAndPosition(g.current_figure, new_rotation, new_position)
    IN  \A i \in 1..4 :
           ~ \/ Round(cells[i].x) < 0
             \/ Round(cells[i].x) >= WIDTH
             \/ Round(cells[i].y) >= HEIGHT

\* update, "Check if the figure can be moved to the new position"
CanMove(g, new_rotation, new_position) ==
    LET cells == AppliedRotationAndPosition(g.current_figure, new_rotation, new_position)
    IN  \A i \in 1..4 :
           ~ \/ Round(cells[i].x) < 0
             \/ Round(cells[i].x) >= WIDTH
             \/ Round(cells[i].y) >= HEIGHT
             \/ g.board[Row(cells[i])][Col(cells[i])] # None

\* update, "Bake figure": a cell in the bottom row or directly above an occupied cell
IsPlaced(board, cells) ==
    \E i \in 1..4 :
       \/ Row(cells[i]) >= HEIGHT - 1
       \/ board[Row(cells[i]) + 1][Col(cells[i])] # None

\* the board with the figure's cells written in its colour
Bake(board, cells, color) ==
    [board EXCEPT ![Row(cells[1])][Col(cells[1])] = color,
                  ![Row(cells[2])][Col(cells[2])] = color,
                  ![Row(cells[3])][Col(cells[3])] = color,
                  ![Row(cells[4])][Col(cells[4])] = color]

\* `while self.is_line_ready(curr_base_line - lines_in_row)`: the number of
\* consecutive full rows from base upwards; -1 when the index passes row 0
\* (usize underflow).
RECURSIVE LinesInRow(_, _, _)
LinesInRow(board, base, n) ==
    IF base - n < 0 THEN -1
    ELSE IF IsLineReady(board, base - n) THEN LinesInRow(board, base, n + 1)
    ELSE n

ShiftDownByOne(board, base, n) ==
    [r \in 0..(HEIGHT - 1) |->
        IF r >= 1 /\ r <= base THEN board[r - 1] ELSE board[r]]

\* the rows above a cleared group copied down by lines_in_row
ShiftDown(board, base, n) ==
    [r \in 0..(HEIGHT - 1) |->
        IF r >= n /\ r <= base THEN board[r - n] ELSE board[r]]

\* the score of one group of lines_in_row full rows: [points, is_tetris_was_last]
GroupScore(n, is_tetris_was_last) ==
    IF n >= 4
    THEN IF is_tetris_was_last THEN [points |-> 300 * n, last |-> TRUE]
         ELSE [points |-> 200 * n, last |-> TRUE]
    ELSE [points |-> 100 * n, last |-> FALSE]

\* update, "Check for cleared lines", from curr_base_line down to the loss line
RECURSIVE ClearLines(_, _)
ClearLines(st, base) ==
    IF base <= Round(LOSE_LINE) \/ st.panic THEN st
    ELSE IF ~IsLineReady(st.board, base) THEN ClearLines(st, base - 1)
    ELSE LET n == LinesInRow(st.board, base, 0)
             gs == GroupScore(n, st.last)
             shifted == ShiftDown(st.board, base, n)
         IN  IF n < 0 THEN [st EXCEPT !.panic = TRUE]
             ELSE ClearLines([board |-> shifted,
                              score |-> st.score + gs.points,
                              last |-> gs.last,
                              cleared |-> st.cleared + n,
                              panic |-> FALSE,
                              groups |-> Append(st.groups,
                                            [base |-> base, lines_in_row |-> n,
                                             points |-> gs.points,
                                             before |-> st.board,
                                             after |-> shifted])], base - 1)

LossCheckAny(cells) == \E i \in 1..4 : cells[i].y < LOSE_LINE

\* update, the final check: `.all(|p| p.y < LOSE_LINE)`
LossCheck(cells) == \A i \in 1..4 : cells[i].y < LOSE_LINE

RepeatAllowedAtOnce(from_last_user_input) == from_last_user_input > 0

\* update, "Rotate and move": the gate on key repeats
RepeatAllowed(from_last_user_input) ==
    from_last_user_input > MINIMUM_USER_INPUT_DISTANCE

\* TetrisGame::update; gen is the type gen_figure draws when the figure locks.
\* Returns the game after the update, the UpdateEvent and what happened.
TetrisGame_update(g, key, dt, gen) ==
    LET fpd1 == g.from_prev_descend + dt
        flui1 == g.from_last_user_input + dt
        g1 == [g EXCEPT !.from_prev_descend = fpd1, !.from_last_user_input = flui1]
    IN  IF Overlaps(g1)
        THEN [game |-> g1, event |-> "GameOver", overlap |-> TRUE, can_move |-> FALSE,
              placed |-> FALSE, interval |-> g.to_descend, cleared |-> 0,
              cells |-> <<>>, baked |-> g.board, groups |-> <<>>,
              move |-> [new_position |-> g.current_figure_position,
                        new_rotation |-> g.current_figure.rotation,
                        position |-> g.current_figure_position,
                        rotation |-> g.current_figure.rotation]]
        ELSE
        LET accepted == key # None /\ RepeatAllowed(flui1)
            in_position == IF accepted /\ key = "Left"
                           THEN Pt(g.current_figure_position.x - 100, g.current_figure_position.y)
                           ELSE IF accepted /\ key = "Right"
                           THEN Pt(g.current_figure_position.x + 100, g.current_figure_position.y)
                           ELSE g.current_figure_position
            new_rotation == IF accepted /\ key = "Up" THEN g.current_figure.rotation + 1
                            ELSE g.current_figure.rotation
            last_user_input == IF accepted /\ key = "Left" THEN "Left"
                               ELSE IF accepted /\ key = "Right" THEN "Right"
                               ELSE IF accepted /\ key = "Up" THEN "Rotate"
                               ELSE g.last_user_input
            flui2 == IF accepted THEN 0 ELSE flui1
            to_descend == DescendInterval(g.to_descend, key)
            descend == fpd1 > to_descend
            new_position == IF descend THEN Pt(in_position.x, in_position.y + 100)
                            ELSE in_position
            fpd2 == IF descend THEN 0 ELSE fpd1
            \* "Move the figure if possible" and what follows it, for the
            \* can_move found and the cells the figure then covers
            Moved(can_move, cells) ==
                LET position == IF can_move THEN new_position ELSE g.current_figure_position
                    rotation == IF can_move THEN new_rotation ELSE g.current_figure.rotation
                    placed == IsPlaced(g.board, cells)
                    board1 == IF placed
                              THEN Bake(g.board, cells, GetColor(g.current_figure.figure_type))
                              ELSE g.board
                    lost == ~placed /\ ~can_move /\ LossCheck(cells)
                    baked == {[board |-> board1, score |-> g.score,
                               last |-> g.is_tetris_was_last, cleared |-> 0,
                               panic |-> FALSE, groups |-> <<>>]}
                IN  {[game |->
                         [board |-> cl.board,
                          current_figure |->
                              IF placed THEN g.next_figure
                              ELSE [g.current_figure EXCEPT !.rotation = rotation],
                          current_figure_position |-> IF placed THEN INIT_FIGURE_POS
                                                      ELSE position,
                          next_figure |-> IF placed THEN [figure_type |-> gen, rotation |-> 0]
                                          ELSE g.next_figure,
                          score |-> cl.score,
                          to_descend |-> IF placed THEN TO_DESCEND_SLOW ELSE to_descend,
                          from_prev_descend |-> IF placed THEN 0 ELSE fpd2,
                          is_tetris_was_last |-> cl.last,
                          last_user_input |-> last_user_input,
                          from_last_user_input |-> flui2],
                      event |-> IF cl.panic THEN "Panic"
                                ELSE IF lost THEN "GameOver" ELSE "GameContinue",
                      overlap |-> FALSE, can_move |-> can_move, placed |-> placed,
                      interval |-> to_descend, cleared |-> cl.cleared,
                      cells |-> cells, baked |-> board1, groups |-> cl.groups,
                      move |-> [new_position |-> new_position, new_rotation |-> new_rotation,
                                position |-> position, rotation |-> rotation]] :
                        cl \in {ClearLines(st, HEIGHT - 1) : st \in baked}}
            \* can_move, then the cells, then the cleared lines: each computed once
            results ==
                UNION {UNION {Moved(can_move, cells) :
                                 cells \in {AppliedRotationAndPosition(
                                               g.current_figure,
                                               IF can_move THEN new_rotation
                                               ELSE g.current_figure.rotation,
                                               IF can_move THEN new_position
                                               ELSE g.current_figure_position)}} :
                          can_move \in {CanMove(g, new_rotation, new_position)}}
        IN  CHOOSE result \in results : TRUE

\* Boards a game can be in when a figure has just been spawned.  Besides the
\* empty board of TetrisGame::new: a board whose column 2 is full, which five
\* Line figures, each rotated once, shifted left three times and dropped,
\* leave behind (no row is ever full, so nothing is cleared on the way).
TowerBoard ==
    [r \in 0..(HEIGHT - 1) |-> [c \in 0..(WIDTH - 1) |-> IF c = 2 THEN "Cyan" ELSE None]]

\* A board whose columns 3..6 are full from row 2 down, which eighteen Square
\* figures dropped in columns 3..4 and 5..6 leave behind.
SquareStackBoard ==
    [r \in 0..(HEIGHT - 1) |-> [c \in 0..(WIDTH - 1) |->
        IF c \in 3..6 /\ r >= 2 THEN "Yellow" ELSE None]]

TetrisBoards == {EmptyBoard, TowerBoard, SquareStackBoard}

\* A board filled from row 2 down but for a well: column 5 is empty down to
\* row 5, columns 4 and 9 are empty from row 6 down, and columns 0 and 1 are
\* filled from row first down.  Square figures dropped in columns 0..1, 2..3,
\* 5..6 and 7..8, upright Line figures dropped on columns 2, 6 and 7, and
\* Square figures dropped in columns 3..4 and 8..9 leave it behind; no row is
\* ever full on the way.
WellBoardFrom(first) ==
    [r \in 0..(HEIGHT - 1) |-> [c \in 0..(WIDTH - 1) |->
        IF r < 2 THEN None
        ELSE IF c \in {4, 9} THEN (IF r <= 5 THEN "Yellow" ELSE None)
        ELSE IF c = 5 THEN (IF r >= 6 THEN "Yellow" ELSE None)
        ELSE IF c \in {0, 1} THEN (IF r >= first THEN "Yellow" ELSE None)
        ELSE IF c \in {2, 6, 7} /\ r <= 5 THEN "Cyan"
        ELSE "Yellow"]]

\* rows 2..5 lack column 5 only; or rows 4..5 lack column 5 only and rows
\* 2..3 lack columns 0 and 1 as well
WellBoards == {WellBoardFrom(2), WellBoardFrom(4)}

\* The types gen_figure draws for next_figure, at the start and at a lock.
InitNextTypes == {"Square", "Line"}

\* pre is the game before the update and cells are the figure's cells after
\* the move step; baked, the board after the bake, is kept for the updates
\* that lock the figure; move holds the position and rotation the move step
\* tried and the ones it left.
TetrisObsInit ==
    [frames |-> 0, key |-> None, dt |-> 0, event |-> None, overlap |-> FALSE,
     can_move |-> FALSE, placed |-> FALSE, interval |-> TO_DESCEND_SLOW,
     pre_to_descend |-> TO_DESCEND_SLOW, cleared |-> 0,
     pre |-> TetrisGame_new("Square", "Square"), cells |-> <<>>,
     baked |-> EmptyBoard, groups |-> <<>>,
     move |-> [new_position |-> INIT_FIGURE_POS, new_rotation |-> 0,
               position |-> INIT_FIGURE_POS, rotation |-> 0],
     adjusted |-> FALSE, since_adjusted |-> -1]

\* main.rs, `let (mut snake, mut tetris, mut space_invaders, mut pong);`: a
\* game the menu did not choose is never constructed.
NotConstructed == <<>>

TetrisIdle ==
    /\ tetris = NotConstructed
    /\ tetrisObs = NotConstructed

\* A game whose first figures left one of TetrisBoards behind without a
\* clear, or one that cleared four rows at the bottom with a Line figure (800
\* points) and whose later figures left one of WellBoards behind.
TetrisInit ==
    /\ \/ \E cur \in FigureTypes, next \in InitNextTypes, board \in TetrisBoards :
             tetris = [TetrisGame_new(cur, next) EXCEPT !.board = board]
       \/ \E next \in InitNextTypes, board \in WellBoards, tetris_was_last \in BOOLEAN :
             tetris = [TetrisGame_new("Line", next) EXCEPT
                          !.board = board,
                          !.is_tetris_was_last = tetris_was_last,
                          !.score = IF tetris_was_last THEN 800 ELSE 0]
    /\ tetrisObs = TetrisObsInit

\* the update's input handling moved the intended position sideways or
\* turned the intended rotation
Adjusted(g, move) ==
    \/ move.new_position.x # g.current_figure_position.x
    \/ move.new_rotation # g.current_figure.rotation

\* the frame time accumulated since the last such adjustment (-1 before
\* the first), counted up to just above MINIMUM_USER_INPUT_DISTANCE
SinceAdjusted(since, adjusted, dt) ==
    IF adjusted THEN 0
    ELSE IF since = -1 THEN -1
    ELSE IF since + dt > MINIMUM_USER_INPUT_DISTANCE THEN MINIMUM_USER_INPUT_DISTANCE + 1
    ELSE since + dt

\* TetrisGame::update with the given key and elapsed time; frames is the
\* number of updates made once it has returned.
TetrisFrame(key, dt, frames) ==
    \E probe \in {TetrisGame_update(tetris, key, dt, "Square")} :
       \E gen \in (IF probe.placed THEN InitNextTypes ELSE {"Square"}) :
          \E r \in {IF gen = "Square" THEN probe
                     ELSE TetrisGame_update(tetris, key, dt, gen)} :
              /\ tetris' = r.game
              /\ tetrisObs' = [frames |-> frames, key |-> key, dt |-> dt,
                               event |-> r.event, overlap |-> r.overlap,
                               can_move |-> r.can_move, placed |-> r.placed,
                               interval |-> r.interval,
                               pre_to_descend |-> tetris.to_descend,
                               cleared |-> r.cleared,
                               pre |-> tetris,
                               cells |-> r.cells,
                               baked |-> IF r.placed THEN r.baked ELSE EmptyBoard,
                               groups |-> r.groups,
                               move |-> r.move,
                               adjusted |-> Adjusted(tetris, r.move),
                               since_adjusted |->
                                   SinceAdjusted(tetrisObs.since_adjusted,
                                                 Adjusted(tetris, r.move), dt)]

\* One frame: TetrisGame::update with this frame's key and elapsed time.
TetrisUpdate ==
    /\ tetrisObs.frames < MaxTetrisFrames
    /\ tetrisObs.event \notin {"GameOver", "Panic"}
    /\ \E key \in TetrisKeys, dt \in TetrisDeltas :
          TetrisFrame(key, dt, tetrisObs.frames + 1)

\* Keys and elapsed times (milliseconds) of the frames of a game followed for
\* as long as its first figure falls: frames shorter and longer than
\* MINIMUM_USER_INPUT_DISTANCE.
FallKeys == {None, "Left"}
FallDeltas == {60, 130}

\* A new game on the empty board whose first figure, untouched, has come
\* down to the row FallStart, two rows above the bottom row, with a descent
\* in the last frame.
FallStart == HEIGHT - 3

FallInit ==
    /\ \E cur \in {"Square", "Line"} :
          tetris = [TetrisGame_new(cur, "Square") EXCEPT
                       !.current_figure_position = Pt(INIT_FIGURE_POS.x, FallStart * 100),
                       !.from_last_user_input = FallStart * 260]
    /\ tetrisObs = TetrisObsInit

\* One frame while the first figure of the game falls; the frames are counted
\* up to MaxTetrisFrames.
FallUpdate ==
    /\ tetrisObs.event \notin {"GameOver", "Panic"}
    /\ ~tetrisObs.placed
    /\ \E key \in FallKeys, dt \in FallDeltas :
          TetrisFrame(key, dt, IF tetrisObs.frames < MaxTetrisFrames
                               THEN tetrisObs.frames + 1 ELSE MaxTetrisFrames)

(***************************************************************************)
(* snake.rs                                                                *)
(* Coordinates and lengths in hundredths of a cell, durations in           *)
(* milliseconds.                                                           *)
(***************************************************************************)

\* Bounds of the Snake model.
MaxSnakeFrames == 3     \* updates in one behaviour

\* crate::util::MORE_THAN_HALF_CELL: a little more than half a cell
MORE_THAN_HALF_CELL == 51

apples_MAX == 5
apples_SPAWN_RATE == 2000
apples_RADIUS == MORE_THAN_HALF_CELL
apples_GROWTH == 100
snakes_SPEED == 1200
snakes_WIDTH == 25

\* The snake main.rs constructs: SnakeGame::new(Point { x: 10, y: 10 }).
SnakeSetups == {Pt(1000, 1000)}

SnakeKeys == {None, "Up", "Down", "Left", "Right"}

\* Elapsed times of one frame, in milliseconds.
SnakeDeltas == {20, 100, 2000}

\* terminal::size(): <<columns, rows>>
SnakeTermSizes == {<<40, 20>>, <<30, 14>>, <<80, 20>>}

\* Values of rand::random::<u32>() for the x and the y of an apple.
SnakeRandX == {11, 13, 33, 37}
SnakeRandY == {9, 29}

Line(begin, end) == [begin |-> begin, end |-> end]

\* Point::dot
Dot(p, q) == p.x * q.x + p.y * q.y

\* the largest r in lo..hi with r * r <= n
RECURSIVE SqrtSearch(_, _, _)
SqrtSearch(n, lo, hi) ==
    IF lo >= hi THEN lo
    ELSE LET mid == (lo + hi + 1) \div 2
         IN  IF mid * mid <= n THEN SqrtSearch(n, mid, hi)
             ELSE SqrtSearch(n, lo, mid - 1)

\* Point::length: x.hypot(y), to a hundredth (exact for axis-parallel vectors)
PtLength(p) == SqrtSearch(p.x * p.x + p.y * p.y, 0, 46340)

\* Line::length
Length(l) == PtLength(PtSub(l.end, l.begin))

\* Line::distance_to
DistanceTo(l, point) ==
    LET a == PtSub(l.end, l.begin)
        b == PtSub(point, l.begin)
        c == PtSub(point, l.end)
    IN  IF Dot(a, b) > 0 /\ Dot(a, c) < 0
        THEN RoundDiv(Abs(Cross(a, b)), PtLength(a))
        ELSE IF PtLength(b) < PtLength(c) THEN PtLength(b) ELSE PtLength(c)

\* Input::new and the four single-direction inputs
Input(up, down, left, right) == [up |-> up, down |-> down, left |-> left, right |-> right]

\* Input::empty
InputEmpty(i) == ~i.up /\ ~i.down /\ ~i.left /\ ~i.right

\* Input::as_vec
AsVec(i, length) ==
    Pt((IF i.right THEN length ELSE 0) - (IF i.left THEN length ELSE 0),
       (IF i.down THEN length ELSE 0) - (IF i.up THEN length ELSE 0))

\* read_to_input
ReadToInput(key) == Input(key = "Up", key = "Down", key = "Left", key = "Right")

\* Snake::new
Snake_new(begin) == [segments |-> <<Line(begin, PtAdd(begin, Pt(300, 0)))>>]

\* SnakeGame::new
SnakeGame_new(setup) ==
    [snake |-> Snake_new(setup),
     apples |-> <<>>,
     prev_non_empty_input |-> Input(FALSE, FALSE, FALSE, TRUE),
     duration |-> 2,
     score |-> 0,
     to_growth |-> 0]

\* Snake::head
SnakeHead(segments) == segments[Len(segments)]

IsCollidedWithPreHead(segments) ==
    /\ Len(segments) > 2
    /\ \E i \in 1..(Len(segments) - 1) :
          \/ Intersects(SnakeHead(segments), segments[i])
          \/ DistanceTo(segments[i], SnakeHead(segments).end) < snakes_WIDTH

\* update, "Check for collisions"
IsCollided(segments) ==
    /\ Len(segments) > 2
    /\ \E i \in 1..(Len(segments) - 2) :
          \/ Intersects(SnakeHead(segments), segments[i])
          \/ DistanceTo(segments[i], SnakeHead(segments).end) < snakes_WIDTH

\* update, "Check for eating food": the apples the head tip does not reach
UneatenApples(apples, head_end) ==
    LET Uneaten(a) == ~Compare(head_end, a, apples_RADIUS)
    IN  SelectSeq(apples, Uneaten)

\* is_on_snake
IsOnSnake(segments, coords) ==
    \E i \in 1..Len(segments) : Compare(coords, segments[i].end, apples_RADIUS)

\* is_on_apple
IsOnApple(coords, apples) ==
    \E i \in 1..Len(apples) : Compare(coords, apples[i], apples_RADIUS)

\* get_terminal_size: the terminal in rectangular characters
GetTerminalSize(size) == Pt(size[1] * 50, size[2] * 100)

\* random_position_on_screen with the two random values rx and ry
RandomPositionOnScreen(size, rx, ry) ==
    LET screen_size == GetTerminalSize(size)
    IN  Pt((rx % (screen_size.x \div 100)) * 100, ((ry + 1) % (screen_size.y \div 100)) * 100)

ChosenInputAnyKey(key, prev) ==
    IF ~InputEmpty(ReadToInput(key)) THEN ReadToInput(key) ELSE prev

\* update, the direction the snake takes
ChosenInput(key, prev) ==
    LET key_input == ReadToInput(key)
    IN  IF /\ ~InputEmpty(key_input)
           /\ \/ key_input.up /\ ~prev.down
              \/ key_input.down /\ ~prev.up
              \/ key_input.left /\ ~prev.right
              \/ key_input.right /\ ~prev.left
        THEN key_input ELSE prev

GrowthBeginAtOrigin(head_end, collision, screen_size) == Pt(0, 0)

\* update, "Growth head": where the segment a turn appends begins
GrowthBegin(head_end, collision, screen_size) ==
    CASE collision = None     -> head_end
      [] collision = "Bottom" -> Pt(head_end.x, 0)
      [] collision = "Top"    -> Pt(head_end.x, screen_size.y)
      [] collision = "Left"   -> Pt(0, head_end.y)
      [] collision = "Right"  -> Pt(screen_size.x, head_end.y)

\* update, "Growth head": the segment a turn appends
GrowthSegment(head_end, new_head_end, collision, screen_size) ==
    LET begin == GrowthBegin(head_end, collision, screen_size)
    IN  IF collision = None THEN Line(begin, new_head_end)
        ELSE Line(begin, PtAdd(begin, new_head_end))

\* update, "Shrink tail"; panic when the Vec runs empty
RECURSIVE ShrinkTail(_, _)
ShrinkTail(segments, to_shrink) ==
    IF to_shrink <= 0 THEN [segments |-> segments, panic |-> FALSE]
    ELSE IF segments = <<>> THEN [segments |-> segments, panic |-> TRUE]
    ELSE LET first == segments[1]
             len == Length(first)
             d == PtSub(first.end, first.begin)
         IN  IF len > to_shrink
             THEN [segments |->
                      [segments EXCEPT ![1].begin =
                          Pt(first.begin.x + RoundDiv(d.x * to_shrink, len),
                             first.begin.y + RoundDiv(d.y * to_shrink, len))],
                   panic |-> FALSE]
             ELSE ShrinkTail(Tail(segments), to_shrink - len)

FoodSpawnsAtMax(duration, count) ==
    duration > apples_SPAWN_RATE /\ count <= apples_MAX

\* update, "Spawn food": the two conditions under which an apple is pushed
FoodSpawns(duration, count) ==
    duration > apples_SPAWN_RATE /\ count < apples_MAX

\* SnakeGame::update; size is what terminal::size() returns during it and
\* apple_coords the position the sampling loop of "Spawn food" ends with.
\* Returns the game after the update, the UpdateEvent and what happened.
SnakeGame_update(g, key, dt, size, apple_coords) ==
    LET duration1 == g.duration + dt
        segments == g.snake.segments
        is_collided == IsCollided(segments)
        head_end == SnakeHead(segments).end
        apples1 == UneatenApples(g.apples, head_end)
        eaten == Len(g.apples) - Len(apples1)
        to_growth1 == g.to_growth + eaten * apples_GROWTH
        spawn_time == duration1 > apples_SPAWN_RATE
        spawned == FoodSpawns(duration1, Len(apples1))
        apples2 == IF spawned THEN Append(apples1, apple_coords) ELSE apples1
        screen_size == GetTerminalSize(size)
        real_screen_size == ToScreen(screen_size)
        distance_traveled == MulDt(snakes_SPEED, dt)
        direction == ChosenInput(key, g.prev_non_empty_input)
        turned == direction # g.prev_non_empty_input
        new_head_end == PtAdd(AsVec(direction, distance_traveled), head_end)
        collision == IF turned
                     THEN BoundsCheck(new_head_end, Round(real_screen_size.x),
                                      Round(real_screen_size.y))
                     ELSE None
        grown == IF turned
                 THEN Append(segments,
                             GrowthSegment(head_end, new_head_end, collision, screen_size))
                 ELSE [segments EXCEPT ![Len(segments)].end = new_head_end]
        to_shrink == IF distance_traveled > to_growth1
                     THEN distance_traveled - to_growth1 ELSE 0
        to_growth2 == IF to_growth1 > distance_traveled
                      THEN to_growth1 - distance_traveled ELSE 0
        shrunk == ShrinkTail(grown, to_shrink)
    IN  [game |-> [snake |-> [segments |-> shrunk.segments],
                   apples |-> apples2,
                   prev_non_empty_input |-> direction,
                   duration |-> IF spawn_time THEN 0 ELSE duration1,
                   score |-> g.score + eaten,
                   to_growth |-> to_growth2],
         event |-> IF shrunk.panic THEN "Panic"
                   ELSE IF is_collided THEN "GameOver" ELSE "GameContinue",
         spawned |-> spawned, eaten |-> eaten, turned |-> turned,
         collision |-> collision, budget |-> to_growth1]

SnakeObsInit ==
    [frames |-> 0, event |-> None, spawned |-> FALSE, eaten |-> 0, turned |-> FALSE,
     collision |-> None, key |-> None, dt |-> 0, size |-> <<0, 0>>, pre |-> <<>>,
     budget |-> 0, prev |-> Input(FALSE, FALSE, FALSE, TRUE)]

SnakeIdle ==
    /\ snake = SnakeGame_new(Pt(1000, 1000))
    /\ snakeObs = SnakeObsInit

SnakeInit ==
    /\ \E setup \in SnakeSetups : snake = SnakeGame_new(setup)
    /\ \E size \in SnakeTermSizes : snakeObs = [SnakeObsInit EXCEPT !.size = size]

\* Apples spawned earlier in a game, away from the row of the snake.
EarlierApples == <<Pt(100, 100), Pt(300, 100), Pt(500, 100), Pt(700, 100)>>

\* A game some seconds old in a 40x20 terminal: four spawn checks have each
\* pushed an apple, none has been eaten, and the snake, back in one segment,
\* passes the place it started from; the last spawn check was just now or
\* almost apples::SPAWN_RATE ago.
SnakeLateInit ==
    /\ \E setup \in SnakeSetups, duration \in {0, 1990} :
          snake = [SnakeGame_new(setup) EXCEPT !.apples = EarlierApples,
                                               !.duration = duration]
    /\ snakeObs = [SnakeObsInit EXCEPT !.size = <<40, 20>>]

\* One frame: SnakeGame::update with this frame's key and elapsed time, in
\* the terminal the game was started in.  When an apple is spawned the sampling loop ends with the
\* first sample that is neither on the snake nor on an apple.
SnakeUpdate ==
    /\ snakeObs.frames < MaxSnakeFrames
    /\ snakeObs.event \notin {"GameOver", "Panic"}
    /\ \E key \in SnakeKeys, dt \in SnakeDeltas, size \in {snakeObs.size} :
         \E probe \in {SnakeGame_update(snake, key, dt, size, Pt(0, 0))} :
            \E rx \in (IF probe.spawned THEN SnakeRandX ELSE {0}),
               ry \in (IF probe.spawned THEN SnakeRandY ELSE {0}) :
               LET coords == RandomPositionOnScreen(size, rx, ry)
                   apples1 == UneatenApples(snake.apples, SnakeHead(snake.snake.segments).end)
               IN  /\ probe.spawned =>
                         /\ ~IsOnSnake(snake.snake.segments, coords)
                         /\ ~IsOnApple(coords, apples1)
                   /\ \E r \in {SnakeGame_update(snake, key, dt, size, coords)} :
                         /\ snake' = r.game
                         /\ snakeObs' = [frames |-> snakeObs.frames + 1, event |-> r.event,
                                         spawned |-> r.spawned, eaten |-> r.eaten,
                                         turned |-> r.turned, collision |-> r.collision,
                                         key |-> key, dt |-> dt, size |-> size,
                                         pre |-> snake.snake.segments,
                                         budget |-> r.budget,
                                         prev |-> snake.prev_non_empty_input]

(***************************************************************************)
(* space_invaders.rs                                                       *)
(* Coordinates and speeds in hundredths of a cell, durations in            *)
(* milliseconds, chances and random values in percent.                     *)
(***************************************************************************)

\* Bounds of the Space Invaders model.
MaxInvadersFrames == 4  \* updates in one behaviour

FOR_ENEMY_SCORE == 1
FOR_PROP_SCORE == 0
FIRE_BULLET_OFFSET == 100
SI_PLAYER_SPEED == 100
PLAYER_FIRE_RATE == 500
GAME_UPDATE_INTERVAL == 100

\* From<Point<ScreenBasis>> for Point<GameBasis> (exact for an even p.x)
ToGame(p) == Pt(p.x \div 2, p.y)

\* is_success: the random value, in percent, is below the chance
IsSuccess(random, chance) == random < chance

\* a failed assert!: the construction panics
Panic == [panic |-> TRUE]
Panicked(value) == "panic" \in DOMAIN value

\* EnemyAction::new; chance in percent
EnemyAction_new(action_type, duration, chance) ==
    IF ~(0 <= chance /\ chance <= 100) THEN Panic
    ELSE [action_type |-> action_type, duration |-> duration, chance |-> chance]

\* EnemyAction::move_by_one
EnemyAction_move_by_one(direction, chance) ==
    EnemyAction_new([kind |-> "Move", direction |-> direction, speed |-> 100], 1000, chance)

EnemyAction_left(chance) == EnemyAction_move_by_one("Left", chance)

EnemyAction_right(chance) == EnemyAction_move_by_one("Right", chance)

EnemyAction_up(chance) == EnemyAction_move_by_one("Up", chance)

EnemyAction_down(chance) == EnemyAction_move_by_one("Down", chance)

\* EnemyAction::wait
EnemyAction_wait(duration, chance) ==
    EnemyAction_new([kind |-> "Wait", direction |-> None, speed |-> 0], duration, chance)

\* EnemyAction::fire_down
EnemyAction_fire_down(chance) ==
    EnemyAction_new([kind |-> "Fire", direction |-> "Down", speed |-> 100], 1000, chance)

EnemyBehavior_new_any_pointer(actions, to_next_move, current_action) ==
    IF Len(actions) = 0 THEN Panic
    ELSE [actions |-> actions, to_next_move |-> to_next_move,
          current_action |-> current_action]

\* EnemyBehavior::new; current_action counts from 0
EnemyBehavior_new(actions, to_next_move, current_action) ==
    IF ~(current_action < Len(actions)) THEN Panic
    ELSE IF Len(actions) = 0 THEN Panic
    ELSE [actions |-> actions, to_next_move |-> to_next_move,
          current_action |-> current_action]

\* EnemyBehavior::current_action
CurrentAction(behavior) == behavior.actions[behavior.current_action + 1]

\* EnemyBehavior::next_action
NextAction(behavior) ==
    [behavior EXCEPT !.current_action =
        IF behavior.current_action + 1 >= Len(behavior.actions) THEN 0
        ELSE behavior.current_action + 1]

\* EnemyBehavior::delta
Delta(behavior, delta_time) ==
    [behavior EXCEPT !.to_next_move =
        IF behavior.to_next_move < delta_time THEN 0
        ELSE behavior.to_next_move - delta_time]

\* the action lists of the enemy presets
PresetActions(enemy_preset) ==
    CASE enemy_preset = "CheckeredLeftRight" ->
            <<EnemyAction_right(100), EnemyAction_left(100)>>
      [] enemy_preset = "CheckeredRightDownLeftUp" ->
            <<EnemyAction_right(100), EnemyAction_down(100),
              EnemyAction_left(100), EnemyAction_up(100)>>
      [] enemy_preset = "CheckeredLeft" -> <<EnemyAction_left(100)>>
      [] enemy_preset = "RandomFire" ->
            <<EnemyAction_fire_down(10), EnemyAction_left(20),
              EnemyAction_down(5), EnemyAction_wait(1000, 50)>>

\* SpaceInvadersGame::new, enemies: `for y in 0..rows { for x in 0..cols`;
\* rand holds the values of rand::random::<u8>() in the order they are drawn
PresetEnemies(screen_width, enemy_preset, rand) ==
    IF enemy_preset = "Empty" THEN <<>>
    ELSE LET random_fire == enemy_preset = "RandomFire"
             rows == IF random_fire THEN 8 ELSE 5
             cols == IF random_fire THEN (screen_width \div 2) \div 7
                     ELSE (screen_width \div 2) \div 2
         IN  [k \in 1..(rows * cols) |->
                LET x == (k - 1) % cols
                    y == (k - 1) \div cols
                IN  [position |->
                        IF random_fire THEN Pt((x * 7 + y + (rand[k] % 7)) * 100, y * 100)
                        ELSE Pt((x * 2 + (y % 2)) * 100, y * 100),
                     behavior |-> EnemyBehavior_new(PresetActions(enemy_preset), 0, 0)]]

\* SpaceInvadersGame::new, props
PresetProps(screen_height, screen_width, props_preset) ==
    IF props_preset = "Empty" THEN <<>>
    ELSE [k \in 1..((screen_width \div 2) \div 2) |->
             [position |-> Pt((k - 1) * 200, (screen_height - 3) * 100),
              destroyable |-> FALSE]]
         \o
         [k \in 1..((screen_width \div 2) * 3) |->
             [position |-> Pt(((k - 1) \div 3) * 100,
                              (screen_height - 4 - ((k - 1) % 3)) * 100),
              destroyable |-> TRUE]]

\* SpaceInvadersGame::new
SpaceInvadersGame_new(screen_height, screen_width, enemy_preset, props_preset, rand) ==
    [score |-> 0,
     bullets |-> <<>>,
     enemies |-> PresetEnemies(screen_width, enemy_preset, rand),
     props |-> PresetProps(screen_height, screen_width, props_preset),
     player |-> [position |->
                    ToGame(Pt((screen_width \div 2) * 100, (screen_height - 1) * 100))],
     from_last_update |-> 0,
     from_last_fire |-> 0]

\* a position one step of the given speed in the given direction
Step(position, direction, speed) ==
    CASE direction = "Up"    -> Pt(position.x, position.y - speed)
      [] direction = "Down"  -> Pt(position.x, position.y + speed)
      [] direction = "Left"  -> Pt(position.x - speed, position.y)
      [] direction = "Right" -> Pt(position.x + speed, position.y)

\* no element of the sequence lies within MORE_THAN_HALF_CELL of the position
NoneNear(things, position) ==
    \A i \in 1..Len(things) : ~Compare(things[i].position, position, MORE_THAN_HALF_CELL)

\* update, "player movement": the player after the key
MovedPlayer(g, enemies, key, screen_width, screen_height) ==
    IF key \in {"Left", "Right"}
    THEN LET next_position ==
                 Pt(g.player.position.x
                       + (IF key = "Left" THEN -SI_PLAYER_SPEED ELSE SI_PLAYER_SPEED),
                    g.player.position.y)
         IN  IF /\ BoundsCheck(next_position, screen_width, screen_height) = None
                /\ NoneNear(g.props, next_position)
                /\ NoneNear(enemies, next_position)
             THEN [position |-> next_position]
             ELSE g.player
    ELSE g.player

ExecutesBeyondEdge(action, position, g, screen_width, screen_height) ==
    IF action.action_type.kind = "Move"
    THEN LET next_position ==
                 Step(position, action.action_type.direction, action.action_type.speed)
         IN  /\ NoneNear(g.enemies, next_position)
             /\ NoneNear(g.props, next_position)
             /\ ~Compare(g.player.position, next_position, MORE_THAN_HALF_CELL)
    ELSE TRUE

\* update, "enemies movement": whether the enemy at the position can carry
\* the action out; g holds self.enemies, self.props and self.player
Executes(action, position, g, screen_width, screen_height) ==
    IF action.action_type.kind = "Move"
    THEN LET next_position ==
                 Step(position, action.action_type.direction, action.action_type.speed)
         IN  /\ BoundsCheck(next_position, screen_width, screen_height) = None
             /\ NoneNear(g.enemies, next_position)
             /\ NoneNear(g.props, next_position)
             /\ ~Compare(g.player.position, next_position, MORE_THAN_HALF_CELL)
    ELSE TRUE

\* the enemy after it carried the action out: moved if the action is a move,
\* the action's duration added to its countdown, the pointer advanced
Applied(enemy, action) ==
    [position |-> IF action.action_type.kind = "Move"
                  THEN Step(enemy.position, action.action_type.direction,
                            action.action_type.speed)
                  ELSE enemy.position,
     behavior |-> NextAction([enemy.behavior EXCEPT
                                 !.to_next_move = enemy.behavior.to_next_move
                                                     + action.duration])]

\* update, the 'failures loop of one enemy, from its trial-th pass on; action
\* is the one fetched before the loop and rolls the random values of is_success
RECURSIVE Failures(_, _, _, _, _, _, _, _)
Failures(enemy, action, start_action_ind, trial, rolls, g, screen_width, screen_height) ==
    IF /\ IsSuccess(rolls[trial], action.chance)
       /\ Executes(action, enemy.position, g, screen_width, screen_height)
    THEN [enemy |-> Applied(enemy, action),
          fired |-> action.action_type.kind = "Fire",
          trials |-> trial]
    ELSE LET behavior == NextAction(enemy.behavior)
         IN  IF behavior.current_action = start_action_ind
             THEN [enemy |-> [enemy EXCEPT !.behavior = behavior],
                   fired |-> FALSE, trials |-> trial]
             ELSE Failures([enemy EXCEPT !.behavior = behavior], action,
                           start_action_ind, trial + 1, rolls, g,
                           screen_width, screen_height)

EvaluatedEnemyAnyCountdown(enemy, rolls, g, screen_width, screen_height) ==
    Failures(enemy, CurrentAction(enemy.behavior), enemy.behavior.current_action,
             1, rolls, g, screen_width, screen_height)

\* update, "enemies movement" for one enemy
EvaluatedEnemy(enemy, rolls, g, screen_width, screen_height) ==
    IF enemy.behavior.to_next_move = 0
    THEN Failures(enemy, CurrentAction(enemy.behavior), enemy.behavior.current_action,
                  1, rolls, g, screen_width, screen_height)
    ELSE [enemy |-> enemy, fired |-> FALSE, trials |-> 0]

\* the vector the conditions of the 'failures loop read while the loop
\* modifies new_enemies, the clone: self.enemies, left as it was until
\* `self.enemies = new_enemies`
SelfEnemiesInProgress(enemies, new_enemies) == new_enemies

SelfEnemies(enemies, new_enemies) == enemies

\* update, "enemies movement": `for new_enemy in &mut new_enemies`, from the
\* enemy after those already evaluated on; g holds self.enemies, self.props
\* and self.player
RECURSIVE EvaluatedEnemies(_, _, _, _, _, _)
EvaluatedEnemies(evaluated, new_enemies, rolls, g, screen_width, screen_height) ==
    LET i == Len(evaluated) + 1
    IN  IF i > Len(new_enemies) THEN evaluated
        ELSE \* one evaluation, used twice
             LET e == EvaluatedEnemy(new_enemies[i], rolls[i],
                                     [g EXCEPT !.enemies =
                                         SelfEnemies(g.enemies, new_enemies)],
                                     screen_width, screen_height)
             IN  EvaluatedEnemies(Append(evaluated, e),
                                  [new_enemies EXCEPT ![i] = e.enemy],
                                  rolls, g, screen_width, screen_height)

\* Vec::retain: the elements of the sequence whose index is in keep, in order
Retain(things, keep) ==
    LET Keeps(i) == i \in keep
        kept == SelectSeq([i \in 1..Len(things) |-> i], Keeps)
    IN  [k \in 1..Len(kept) |-> things[kept[k]]]

\* the bullets the enemies fired, in the order of the enemies
FiredBullets(enemies, evaluated) ==
    LET Fired(i) == evaluated[i].fired
        shooters == SelectSeq([i \in 1..Len(enemies) |-> i], Fired)
    IN  [k \in 1..Len(shooters) |->
            LET enemy == enemies[shooters[k]]
                action == CurrentAction(enemy.behavior)
            IN  [move_direction |-> action.action_type.direction,
                 position |-> Pt(enemy.position.x, enemy.position.y + FIRE_BULLET_OFFSET),
                 speed |-> action.action_type.speed]]

MovedBulletsAllKept(bullets, screen_width, screen_height) ==
    [i \in 1..Len(bullets) |->
        [bullets[i] EXCEPT !.position =
            Step(bullets[i].position, bullets[i].move_direction, bullets[i].speed)]]

\* update, "bullets movement"
MovedBullets(bullets, screen_width, screen_height) ==
    LET moved == [i \in 1..Len(bullets) |->
                     [bullets[i] EXCEPT !.position =
                         Step(bullets[i].position, bullets[i].move_direction,
                              bullets[i].speed)]]
        in_bounds == {i \in 1..Len(moved) :
                         BoundsCheck(moved[i].position, screen_width, screen_height) = None}
    IN  Retain(moved, in_bounds)

RECURSIVE CollisionsEveryBullet(_, _, _, _, _)
CollisionsEveryBullet(bullet_ind, bullets, enemies, props, st) ==
    IF bullet_ind > Len(bullets) THEN st
    ELSE LET position == bullets[bullet_ind].position
             hit_enemies == {j \in 1..Len(enemies) :
                                Compare(position, enemies[j].position, MORE_THAN_HALF_CELL)}
             hit_props == {j \in (1..Len(props)) \ st.props :
                              Compare(position, props[j].position, MORE_THAN_HALF_CELL)}
         IN  CollisionsEveryBullet(bullet_ind + 1, bullets, enemies, props,
                [enemies |-> st.enemies \cup hit_enemies,
                 props |-> st.props \cup hit_props,
                 bullets |-> IF hit_enemies \cup hit_props = {} THEN st.bullets
                             ELSE st.bullets \cup {bullet_ind},
                 score |-> st.score + Cardinality(hit_enemies) * FOR_ENEMY_SCORE
                             + Cardinality({j \in hit_props : props[j].destroyable})
                                  * FOR_PROP_SCORE,
                 victims |-> Append(st.victims,
                                    [enemies |-> hit_enemies, props |-> hit_props])])

\* update, "enemies, bullets, props collision": the marking loop from the
\* bullet_ind-th bullet on.  st holds the indices marked so far, the score and,
\* for every bullet handled, the enemies and the props it marked.
RECURSIVE Collisions(_, _, _, _, _)
Collisions(bullet_ind, bullets, enemies, props, st) ==
    IF bullet_ind > Len(bullets) THEN st
    ELSE LET position == bullets[bullet_ind].position
             hit_enemies == {j \in (1..Len(enemies)) \ st.enemies :
                                Compare(position, enemies[j].position, MORE_THAN_HALF_CELL)}
             hit_props == {j \in (1..Len(props)) \ st.props :
                              Compare(position, props[j].position, MORE_THAN_HALF_CELL)}
         IN  Collisions(bullet_ind + 1, bullets, enemies, props,
                [enemies |-> st.enemies \cup hit_enemies,
                 props |-> st.props \cup hit_props,
                 bullets |-> IF hit_enemies \cup hit_props = {} THEN st.bullets
                             ELSE st.bullets \cup {bullet_ind},
                 score |-> st.score + Cardinality(hit_enemies) * FOR_ENEMY_SCORE
                             + Cardinality({j \in hit_props : props[j].destroyable})
                                  * FOR_PROP_SCORE,
                 victims |-> Append(st.victims,
                                    [enemies |-> hit_enemies, props |-> hit_props])])

\* SpaceInvadersGame::update; size is <<columns, rows>> of the terminal and
\* rolls[i] the random values is_success draws for the i-th enemy.
\* Returns the game after the update, the UpdateEvent and what happened.
SpaceInvadersGame_update(g, key, dt, size, rolls) ==
    LET screen_width == size[1]
        screen_height == size[2]
        from_last_update == g.from_last_update + dt
        quit_requested == key = "q"
        enemies1 == [i \in 1..Len(g.enemies) |->
                        [g.enemies[i] EXCEPT !.behavior = Delta(g.enemies[i].behavior, dt)]]
        from_last_fire == g.from_last_fire + dt
        fires == key = "Space" /\ from_last_fire > PLAYER_FIRE_RATE
        bullets1 == IF fires
                    THEN Append(g.bullets,
                                [move_direction |-> "Up",
                                 position |-> Pt(g.player.position.x,
                                                 g.player.position.y - 100),
                                 speed |-> 100])
                    ELSE g.bullets
        player == MovedPlayer(g, enemies1, key, screen_width, screen_height)
        is_player_collided ==
            \E i \in 1..Len(bullets1) :
               Compare(player.position, bullets1[i].position, MORE_THAN_HALF_CELL)
        g1 == [score |-> g.score, bullets |-> bullets1, enemies |-> enemies1,
               props |-> g.props, player |-> player,
               from_last_update |-> from_last_update,
               from_last_fire |-> IF fires THEN 0 ELSE from_last_fire]
        ticked == from_last_update > GAME_UPDATE_INTERVAL
        evaluated == EvaluatedEnemies(<<>>, enemies1, rolls, g1,
                                      screen_width, screen_height)
        new_enemies == [i \in 1..Len(enemies1) |-> evaluated[i].enemy]
        bullets2 == MovedBullets(bullets1 \o FiredBullets(enemies1, evaluated),
                                 screen_width, screen_height)
        marks == Collisions(1, bullets2, new_enemies, g.props,
                            [enemies |-> {}, props |-> {}, bullets |-> {},
                             score |-> g.score, victims |-> <<>>])
        kept_bullets == (1..Len(bullets2)) \ marks.bullets
        kept_enemies == (1..Len(new_enemies)) \ marks.enemies
        kept_props == {i \in 1..Len(g.props) :
                          i \notin marks.props \/ ~g.props[i].destroyable}
        g2 == IF ticked
              THEN [score |-> marks.score,
                    bullets |-> Retain(bullets2, kept_bullets),
                    enemies |-> Retain(new_enemies, kept_enemies),
                    props |-> Retain(g.props, kept_props),
                    player |-> player,
                    from_last_update |-> 0,
                    from_last_fire |-> g1.from_last_fire]
              ELSE g1
    IN  [game |-> g2,
         event |-> IF is_player_collided \/ quit_requested \/ g2.enemies = <<>>
                   THEN "GameOver" ELSE "GameContinue",
         ticked |-> ticked,
         before |-> IF ticked THEN g1 ELSE g,
         evaluated |-> IF ticked THEN evaluated ELSE <<>>,
         victims |-> IF ticked THEN marks.victims ELSE <<>>]

\* terminal::size(): <<columns, rows>>
InvadersTermSizes == {<<14, 16>>}

\* Values of rand::random::<u8>() for the enemies of the RandomFire preset.
InvadersRand == {<<0, 0, 0, 0, 0, 0, 0, 0>>, <<3, 1, 6, 0, 2, 5, 4, 1>>}

\* The key and the elapsed time (milliseconds) of one frame.
InvadersFrames ==
    {<<None, 60>>, <<None, 1000>>, <<"Right", 300>>, <<"Space", 300>>,
     <<"Space", 60>>, <<"q", 60>>}

\* The random values of one tick, in percent: every trial of every enemy
\* misses; every trial draws 2; the enemies of odd index draw 7 in their
\* second trial and miss otherwise, and those of even index draw 7.
RollPlans(n) ==
    {[i \in 1..n |-> <<99, 99, 99, 99>>],
     [i \in 1..n |-> <<2, 2, 2, 2>>],
     [i \in 1..n |-> IF i % 2 = 1 THEN <<99, 7, 99, 99>> ELSE <<7, 7, 7, 7>>]}

InvadersObsInit(size) ==
    [frames |-> 0, key |-> None, dt |-> 0, event |-> None, size |-> size,
     ticked |-> FALSE, rolls |-> <<>>, before |-> <<>>, evaluated |-> <<>>,
     victims |-> <<>>]

InvadersIdle ==
    /\ invaders = SpaceInvadersGame_new(16, 14, "Empty", "Empty", <<>>)
    /\ invadersObs = InvadersObsInit(<<14, 16>>)

\* main.rs: SpaceInvadersGame::new(h, w, EnemyPreset::RandomFire, PropsPreset::Wall)
InvadersInit ==
    \E size \in InvadersTermSizes, rand \in InvadersRand :
       /\ invaders = SpaceInvadersGame_new(size[2], size[1], "RandomFire", "Wall", rand)
       /\ invadersObs = InvadersObsInit(size)

\* A game four ticks of 300 ms old in which only two trials have succeeded:
\* the enemy of row 4 fired in the first tick and the enemy of row 0 in the
\* fourth.  The enemies of rows 0, 1 and 3 stand in column 3; the first
\* bullet, in column 5, is one step above the props and the second one is
\* two rows below the enemy that fired it.
LateRand == <<3, 2, 6, 0, 1, 5, 4, 1>>

InvadersLateInit ==
    /\ invaders =
          LET g == SpaceInvadersGame_new(16, 14, "RandomFire", "Wall", LateRand)
              Fired(enemy, to_next_move) ==
                  [enemy EXCEPT !.behavior.to_next_move = to_next_move,
                                !.behavior.current_action = 1]
              Shot(x, y) == [move_direction |-> "Down", position |-> Pt(x, y), speed |-> 100]
          IN  [g EXCEPT !.enemies[1] = Fired(g.enemies[1], 1000),
                        !.enemies[5] = Fired(g.enemies[5], 100),
                        !.bullets = <<Shot(500, 900), Shot(300, 200)>>,
                        !.from_last_fire = 1200]
    /\ invadersObs = InvadersObsInit(<<14, 16>>)

\* One frame: SpaceInvadersGame::update with this frame's key, elapsed time
\* and random values.
InvadersUpdate ==
    /\ invadersObs.frames < MaxInvadersFrames
    /\ invadersObs.event # "GameOver"
    /\ \E frame \in InvadersFrames, rolls \in RollPlans(Len(invaders.enemies)) :
          \E r \in {SpaceInvadersGame_update(invaders, frame[1], frame[2],
                                             invadersObs.size, rolls)} :
             /\ invaders' = r.game
             /\ invadersObs' = [frames |-> invadersObs.frames + 1,
                                key |-> frame[1], dt |-> frame[2], event |-> r.event,
                                size |-> invadersObs.size, ticked |-> r.ticked,
                                rolls |-> IF r.ticked THEN rolls ELSE <<>>,
                                before |-> r.before, evaluated |-> r.evaluated,
                                victims |-> r.victims]

(***************************************************************************)
(* Pure functions of point.rs, tetris.rs and space_invaders.rs, each       *)
(* applied once to arguments of the sets below.                            *)
(***************************************************************************)

\* Bound of the arguments: coordinates of segment ends, in cells.
MaxCoord == 2

\* The ends of the segments handed to Line::intersects.
SegmentEnds == {Pt(x * 100, y * 100) : x, y \in 0..MaxCoord}

\* a call that has not been made yet
Pending(op, args) ==
    [op |-> op, args |-> args, done |-> FALSE, result |-> None, steps |-> 0]

\* the call made, with what it returned
Returned_(c, result) == [c EXCEPT !.done = TRUE, !.result = result]

IntersectsCalls ==
    {Pending("intersects", [l |-> Line(a, b), other |-> Line(c, d)]) :
        a \in SegmentEnds, b \in SegmentEnds, c \in SegmentEnds, d \in SegmentEnds}

\* Terminal sizes and coordinates (hundredths of a cell) around each edge,
\* with the halves at which f32::round changes its value.
BoundsSizes == {<<4, 3>>, <<6, 2>>}
BoundsXs == {-100, -50, -49, 0, 100, 124, 125, 200, 249, 250, 449, 450}
BoundsYs == {-50, -49, 0, 249, 250, 349, 350}

BoundsCheckCalls ==
    {Pending("bounds_check", [basis |-> b, p |-> Pt(x, y), width |-> s[1], height |-> s[2]]) :
        b \in {"Screen", "Game"}, x \in BoundsXs, y \in BoundsYs, s \in BoundsSizes}

(***************************************************************************)
(* A binary floating-point format of the shape of f32 (IEEE 754, round to  *)
(* nearest, ties to even) at a reduced width: FloatPrecision significand   *)
(* bits and FloatBinades binades above the lowest normal one.  A finite    *)
(* value is a whole number of units of the smallest subnormal.  The basis  *)
(* conversions multiply and divide by 2.0; what they can lose (overflow at *)
(* the top, the last bit at the bottom) does not depend on the width.      *)
(***************************************************************************)
FloatPrecision == 3
FloatBinades == 3

\* f32::MAX and f32::MIN_POSITIVE of the format
FloatMax == (2 ^ FloatPrecision - 1) * 2 ^ FloatBinades
FloatMinPositive == 2 ^ (FloatPrecision - 1)

Representable(v) ==
    \E e \in 0..FloatBinades :
        Abs(v) % (2 ^ e) = 0 /\ Abs(v) \div (2 ^ e) < 2 ^ FloatPrecision

Num(v) == [kind |-> "num", v |-> v]
Infinity(sign) == [kind |-> "inf", v |-> sign]
NaN == [kind |-> "nan", v |-> 0]

F32s ==
    {Num(v) : v \in {w \in (-FloatMax)..FloatMax : Representable(w)}}
        \cup {Infinity(1), Infinity(-1), NaN}

\* f * 2.0: exact, or infinite beyond f32::MAX
F32_mul2(f) ==
    IF f.kind # "num" THEN f
    ELSE IF Abs(2 * f.v) > FloatMax THEN Infinity(Sgn(f.v))
    ELSE Num(2 * f.v)

F32_div2_flushing(f) ==
    IF f.kind # "num" THEN f
    ELSE IF f.v % 2 = 0
         THEN (IF Abs(f.v \div 2) < FloatMinPositive THEN Num(0) ELSE Num(f.v \div 2))
    ELSE LET lo == (Abs(f.v) - 1) \div 2
             r == IF lo % 2 = 0 THEN lo ELSE lo + 1
         IN  IF r < FloatMinPositive THEN Num(0) ELSE Num(Sgn(f.v) * r)

\* f / 2.0: exact, except for an odd number of units of the smallest
\* subnormal, where the half is rounded to the even neighbour
F32_div2(f) ==
    IF f.kind # "num" THEN f
    ELSE IF f.v % 2 = 0 THEN Num(f.v \div 2)
    ELSE LET lo == (Abs(f.v) - 1) \div 2
         IN  Num(Sgn(f.v) * (IF lo % 2 = 0 THEN lo ELSE lo + 1))

\* f32 ==: a NaN equals nothing
F32_eq(f, g) == f.kind # "nan" /\ g.kind # "nan" /\ f = g

\* #[derive(PartialEq)] of Point
PointEq(p, q) == F32_eq(p.x, q.x) /\ F32_eq(p.y, q.y)

\* From<Point<GameBasis>> for Point<ScreenBasis>, on f32 coordinates
ScreenFromGame(p) == Pt(F32_mul2(p.x), p.y)

\* From<Point<ScreenBasis>> for Point<GameBasis>, on f32 coordinates
GameFromScreen(p) == Pt(F32_div2(p.x), p.y)

\* The points converted: every x of the format, a few y.
RoundTripCalls ==
    {Pending("round_trip", [basis |-> b, p |-> Pt(x, y)]) :
        b \in {"Screen", "Game"}, x \in F32s, y \in {Num(0), Num(3), NaN}}

\* Every figure type at every quarter turn, at the origin and at the spawn
\* position.
AppliedCalls ==
    {Pending("applied_rotation_and_position",
             [figure_type |-> ft, rotation |-> k, position |-> pos]) :
        ft \in FigureTypes, k \in 0..3, pos \in {Pt(0, 0), INIT_FIGURE_POS}}

\* Anchors at the left edge, at the spawn position and near the bottom right
\* corner of the board.
Anchors == {Pt(0, 0), INIT_FIGURE_POS, Pt(700, 1800)}

\* A figure of every type at every anchor, turned 0 to 3 times already, and
\* then turned four times more.
RotationCalls ==
    {Pending("rotate", [figure_type |-> ft, rotation |-> k, position |-> pos]) :
        ft \in FigureTypes, k \in 0..3, pos \in Anchors}

\* Bound on the pointer advances made on one constructed behaviour.
MaxAdvances == 3

\* Chances in percent, on both sides of both ends of 0.0..=100.0.
Chances == {-1, 0, 50, 100, 101}

EnemyActionCalls ==
    {Pending("EnemyAction::new", [chance |-> c]) : c \in Chances}

\* Action lists of length 0 to 4 (the preset lists among them), with start
\* pointers below, at and above their length.
ActionLists ==
    {<<>>, <<EnemyAction_left(100)>>, <<EnemyAction_fire_down(10), EnemyAction_wait(1000, 50)>>,
     PresetActions("CheckeredLeftRight"), PresetActions("RandomFire")}

EnemyBehaviorCalls ==
    {Pending("EnemyBehavior::new", [actions |-> a, current_action |-> i]) :
        a \in ActionLists, i \in 0..5}

CallIdle ==
    call = [op |-> None, args |-> <<>>, done |-> TRUE, result |-> None, steps |-> 0]

CallInit ==
    call \in IntersectsCalls \cup BoundsCheckCalls \cup RoundTripCalls \cup AppliedCalls
                \cup EnemyActionCalls \cup EnemyBehaviorCalls \cup RotationCalls

\* a.intersects(&b) and b.intersects(&a)
CallIntersects ==
    /\ call.op = "intersects"
    /\ ~call.done
    /\ call' = Returned_(call, [direct |-> Intersects(call.args.l, call.args.other),
                                swapped |-> Intersects(call.args.other, call.args.l)])

\* p.bounds_check(width, height) in the basis of p
CallBoundsCheck ==
    /\ call.op = "bounds_check"
    /\ ~call.done
    /\ call' = Returned_(call,
                   IF call.args.basis = "Screen"
                   THEN ScreenBoundsCheck(call.args.p, call.args.width, call.args.height)
                   ELSE BoundsCheck(call.args.p, call.args.width, call.args.height))

\* Point::from(Point::from(p)): to the other basis and back
CallRoundTrip ==
    /\ call.op = "round_trip"
    /\ ~call.done
    /\ call' = Returned_(call,
                   IF call.args.basis = "Game"
                   THEN [there |-> ScreenFromGame(call.args.p),
                         back |-> GameFromScreen(ScreenFromGame(call.args.p))]
                   ELSE [there |-> GameFromScreen(call.args.p),
                         back |-> ScreenFromGame(GameFromScreen(call.args.p))])

\* Figure::new(figure_type, 0.0).applied_rotation_and_position(rotation, position)
CallApplied ==
    /\ call.op = "applied_rotation_and_position"
    /\ ~call.done
    /\ call' = Returned_(call,
                   AppliedRotationAndPosition([figure_type |-> call.args.figure_type,
                                               rotation |-> 0],
                                              call.args.rotation, call.args.position))

\* update, "Rotate and move": `new_rotation += PI / 2.0` four times over, the
\* points of the figure taken before the first and after each
CallRotations ==
    /\ call.op = "rotate"
    /\ ~call.done
    /\ call' = Returned_(call,
                   [turns \in 0..4 |->
                       AppliedRotationAndPosition([figure_type |-> call.args.figure_type,
                                                   rotation |-> call.args.rotation],
                                                  call.args.rotation + turns,
                                                  call.args.position)])

\* EnemyAction::new(EnemyActionType::Wait, 1 s, chance)
CallEnemyAction ==
    /\ call.op = "EnemyAction::new"
    /\ ~call.done
    /\ call' = Returned_(call, EnemyAction_new([kind |-> "Wait"], 1000, call.args.chance))

\* EnemyBehavior::new(actions, 0, current_action)
CallEnemyBehavior ==
    /\ call.op = "EnemyBehavior::new"
    /\ ~call.done
    /\ call' = Returned_(call, EnemyBehavior_new(call.args.actions, 0,
                                                 call.args.current_action))

\* behavior.next_action() on the behaviour constructed
CallNextAction ==
    /\ call.op = "EnemyBehavior::new"
    /\ call.done
    /\ ~Panicked(call.result)
    /\ call.steps < MaxAdvances
    /\ call' = [call EXCEPT !.result = NextAction(call.result), !.steps = call.steps + 1]

(***************************************************************************)
(* Specifications: one per component; each leaves the others at their      *)
(* start.                                                                  *)
(***************************************************************************)

LoopStep ==
    \/ ReaderRead
    \/ ReaderSend
    \/ MenuChoose
    \/ MenuExit
    \/ FrameStart
    \/ PollFirst
    \/ PollDrain
    \/ PollReturn
    \/ CallUpdate
    \/ CallDraw
    \/ SleepFrame
    \/ PostGame

LoopNext ==
    LoopStep /\ UNCHANGED <<pongVars, tetrisVars, snakeVars, invadersVars, callVars>>

\* The frame-loop specification: the menu, the frame loop and the reader thread.
InitLoop == LoopInit /\ PongIdle /\ TetrisIdle /\ SnakeIdle /\ InvadersIdle /\ CallIdle

SpecLoop == InitLoop /\ [][LoopNext]_vars

\* One step of the main thread inside 'game_loop.
FrameStep ==
    /\ \/ FrameStart
       \/ PollFirst
       \/ PollDrain
       \/ PollReturn
       \/ CallUpdate
       \/ CallDraw
       \/ SleepFrame
    /\ UNCHANGED <<pongVars, tetrisVars, snakeVars, invadersVars, callVars>>

\* The frame loop under a scheduler that keeps running the main thread: a
\* step of 'game_loop that can be taken is taken.  Nothing is assumed of the
\* reader thread, which may stay inside read() forever, nor of the menu.
SpecLoopFair == SpecLoop /\ WF_vars(FrameStep)

PongNext ==
    PongUpdate /\ UNCHANGED <<loopVars, tetrisVars, snakeVars, invadersVars, callVars>>

\* The Pong specification: a Pong game under every key, frame time and
\* terminal size of the sets above.
InitPong == LoopInit /\ PongInit /\ TetrisIdle /\ SnakeIdle /\ InvadersIdle /\ CallIdle

SpecPong == InitPong /\ [][PongNext]_vars

TetrisNext ==
    TetrisUpdate /\ UNCHANGED <<loopVars, pongVars, snakeVars, invadersVars, callVars>>

\* The Tetris specification: a Tetris game under every key and frame time of
\* the sets above.
InitTetris == LoopInit /\ PongIdle /\ TetrisInit /\ SnakeIdle /\ InvadersIdle /\ CallIdle

SpecTetris == InitTetris /\ [][TetrisNext]_vars

FallNext ==
    FallUpdate /\ UNCHANGED <<loopVars, pongVars, snakeVars, invadersVars, callVars>>

\* The first figure of a Tetris game, followed through any number of frames
\* until it locks or the game ends.
InitFall == LoopInit /\ PongIdle /\ FallInit /\ SnakeIdle /\ InvadersIdle /\ CallIdle

SpecFall == InitFall /\ [][FallNext]_vars

\* The frames keep coming: the game loop calls update in every iteration.
SpecFallFair == SpecFall /\ WF_vars(FallNext)

SnakeNext ==
    SnakeUpdate /\ UNCHANGED <<loopVars, pongVars, tetrisVars, invadersVars, callVars>>

\* The Snake specification: a Snake game under every key, frame time,
\* terminal size and apple position of the sets above.
InitSnake == LoopInit /\ PongIdle /\ TetrisIdle /\ SnakeInit /\ InvadersIdle /\ CallIdle

SpecSnake == InitSnake /\ [][SnakeNext]_vars

\* The Snake specification started from a game with four apples.
InitSnakeLate ==
    LoopInit /\ PongIdle /\ TetrisIdle /\ SnakeLateInit /\ InvadersIdle /\ CallIdle

SpecSnakeLate == InitSnakeLate /\ [][SnakeNext]_vars

InvadersNext ==
    InvadersUpdate /\ UNCHANGED <<loopVars, pongVars, tetrisVars, snakeVars, callVars>>

\* The Space Invaders specification started from a game with bullets in
\* flight.
InitInvadersLate ==
    LoopInit /\ PongIdle /\ TetrisIdle /\ SnakeIdle /\ InvadersLateInit /\ CallIdle

SpecInvadersLate == InitInvadersLate /\ [][InvadersNext]_vars

\* The Space Invaders specification: the game main.rs constructs under every
\* frame and random values of the sets above.
InitInvaders == LoopInit /\ PongIdle /\ TetrisIdle /\ SnakeIdle /\ InvadersInit /\ CallIdle

SpecInvaders == InitInvaders /\ [][InvadersNext]_vars

CallStep ==
    \/ CallIntersects
    \/ CallBoundsCheck
    \/ CallRoundTrip
    \/ CallApplied
    \/ CallRotations
    \/ CallEnemyAction
    \/ CallEnemyBehavior
    \/ CallNextAction

CallNext ==
    CallStep /\ UNCHANGED <<loopVars, pongVars, tetrisVars, snakeVars, invadersVars>>

\* The specification of the pure functions: one call per behaviour.
InitCalls == LoopInit /\ PongIdle /\ TetrisIdle /\ SnakeIdle /\ InvadersIdle /\ CallInit

SpecCalls == InitCalls /\ [][CallNext]_vars

\* C28: the frame loop never waits for a key: an iteration that has reached
\* the poll goes on, whatever the reader thread does or does not do, to the
\* post-game screen (update returned GameOver) or, through one update, one
\* draw and the sleep, back to the top of the loop.
C28_FrameNeverWaits ==
    (mainpc = "poll")
        ~> (mainpc = "post" \/ (mainpc = "frame" /\ iter.updates = 1 /\ iter.draws = 1))

\* Two iterations completed while the reader thread has never returned from
\* read(): both polls found the queue empty and update was given no event.
C28_Witness ==
    /\ mainpc = "frame"
    /\ iter.updates = 1
    /\ iter.draws = 1
    /\ readLog = <<>>
    /\ reader.pc = "read"
    /\ poll.snapshot = <<>>
    /\ input = None
    /\ clock >= 2

\* The plank lies fully inside the play width of a terminal w columns wide.
InsidePlayWidth(plank, w) ==
    /\ plank.position.x - plank.length * 50 > 0
    /\ plank.position.x + plank.length * 50 < w * 50

\* What an update at terminal width w may do to a plank: leave it as it is,
\* or move it along x to a place inside the play width.
PlankStep(plank, plank_after, w) ==
    /\ plank_after.position.y = plank.position.y
    /\ plank_after.length = plank.length
    /\ plank_after # plank => InsidePlayWidth(plank_after, w)
    /\ InsidePlayWidth(plank, w) => InsidePlayWidth(plank_after, w)

\* C31: with a fixed terminal width, planks that are fully inside the play
\* width remain so after every update: a plank move that would break the
\* condition is reverted completely and all other plank moves are along x
\* only.  Stated for one update at the width w it is given; planks inside for
\* w before it are inside for w after it, so by induction after any sequence
\* of updates at that width.
C31_PlanksStayInside ==
    [][/\ PlankStep(pong.player, pong'.player, pongObs'.size[1])
       /\ PlankStep(pong.enemy, pong'.enemy, pongObs'.size[1])]_pongVars

\* C31 as a property of the states: while the terminal has the width
\* PongGame::new saw, both planks are inside the play width and in their rows.
C31_InsideWhileNotResized ==
    ~pongObs.resized =>
        /\ InsidePlayWidth(pong.player, pongObs.start[1])
        /\ InsidePlayWidth(pong.enemy, pongObs.start[1])
        /\ pong.enemy.position.y = FROM_BOUNDS_INDENT * 100
        /\ pong.player.position.y = (pongObs.start[2] - FROM_BOUNDS_INDENT - 1) * 100

\* The player's plank, inside the play width, was to move out of it and is
\* where it was; the terminal has had one width throughout.
C31_Witness ==
    /\ pongObs.frames > 0
    /\ ~pongObs.resized
    /\ pongObs.reverted.player
    /\ InsidePlayWidth(pong.player, pongObs.size[1])

\* The same for the enemy's plank.
C31_WitnessEnemy ==
    /\ pongObs.frames > 0
    /\ ~pongObs.resized
    /\ pongObs.reverted.enemy
    /\ InsidePlayWidth(pong.enemy, pongObs.size[1])

\* C32: the number of apples is at most apples::MAX; an update adds at most
\* one apple (to those not eaten in it), and only when the time accumulated
\* since the last spawn check exceeds apples::SPAWN_RATE and the count is
\* below the maximum.
C32_ApplesCapped ==
    [][LET left == UneatenApples(snake.apples, SnakeHead(snake.snake.segments).end)
       IN  /\ Len(snake.apples) <= apples_MAX
           /\ Len(snake'.apples) <= apples_MAX
           /\ \/ snake'.apples = left
              \/ /\ Len(snake'.apples) = Len(left) + 1
                 /\ SubSeq(snake'.apples, 1, Len(left)) = left
                 /\ snake.duration + snakeObs'.dt > apples_SPAWN_RATE
                 /\ Len(left) < apples_MAX]_snakeVars

\* A spawn check that found the maximum number of apples and pushed none.
C32_Witness ==
    /\ snakeObs.frames > 0
    /\ Len(snake.apples) = apples_MAX
    /\ snake.duration = 0
    /\ snakeObs.dt > apples_SPAWN_RATE - 1990
    /\ ~snakeObs.spawned
    /\ snakeObs.eaten = 0

\* A spawn check that pushed the fifth apple.
C32_WitnessFifth ==
    /\ snakeObs.frames > 0
    /\ Len(snake.apples) = apples_MAX
    /\ snakeObs.spawned

\* the enemies as the deltas of the update just made left them: those the
\* tick worked on, or those of the game when there was no tick
CountedDown ==
    IF invadersObs'.ticked THEN invadersObs'.before.enemies ELSE invaders'.enemies

\* C33: every update decreases the countdown of every enemy by the elapsed
\* time, saturating at zero; in a tick an enemy whose countdown is not zero
\* makes no trial, keeps its position and its action pointer and fires no
\* bullet.
C33_CountdownGatesActions ==
    [][/\ Len(CountedDown) = Len(invaders.enemies)
       /\ \A i \in 1..Len(invaders.enemies) :
             LET to_next_move == invaders.enemies[i].behavior.to_next_move
             IN  /\ CountedDown[i].behavior.to_next_move =
                       IF to_next_move < invadersObs'.dt THEN 0
                       ELSE to_next_move - invadersObs'.dt
                 /\ CountedDown[i].position = invaders.enemies[i].position
                 /\ invadersObs'.ticked /\ CountedDown[i].behavior.to_next_move # 0
                       => /\ invadersObs'.evaluated[i].trials = 0
                          /\ invadersObs'.evaluated[i].enemy = CountedDown[i]
                          /\ ~invadersObs'.evaluated[i].fired]_invadersVars

\* A tick in which an enemy still counting down was passed over while
\* another one, its countdown at zero, made a trial.
C33_Witness ==
    /\ invadersObs.ticked
    /\ \E i, j \in 1..Len(invadersObs.before.enemies) :
          /\ invadersObs.before.enemies[i].behavior.to_next_move \in 1..999
          /\ invadersObs.evaluated[i].trials = 0
          /\ invadersObs.before.enemies[j].behavior.to_next_move = 0
          /\ invadersObs.evaluated[j].trials > 0

InBounds(position) ==
    BoundsCheck(position, invadersObs.size[1], invadersObs.size[2]) = None

\* the bullet an enemy that fired in the last tick pushed
PushedBy(i) ==
    LET enemy == invadersObs.before.enemies[i]
        action_type == CurrentAction(enemy.behavior).action_type
    IN  [move_direction |-> action_type.direction,
         position |-> Pt(enemy.position.x, enemy.position.y + FIRE_BULLET_OFFSET),
         speed |-> action_type.speed]

\* the bullets the bullet movement of the last tick worked on
BulletsOfTick ==
    {invadersObs.before.bullets[k] : k \in 1..Len(invadersObs.before.bullets)}
       \cup {PushedBy(i) : i \in {j \in 1..Len(invadersObs.evaluated) :
                                     invadersObs.evaluated[j].fired}}

\* the bullet one step of its speed further along its direction
Flown(bullet) ==
    [bullet EXCEPT !.position = Step(bullet.position, bullet.move_direction, bullet.speed)]

\* C34: in a terminal of fixed size every bullet of the game is within the
\* screen bounds after every update: the bullets a tick leaves are bullets
\* moved one step of their speed along their direction and found in bounds,
\* and an update without a tick moves none.
C34_BulletsInBounds ==
    /\ \A k \in 1..Len(invaders.bullets) : InBounds(invaders.bullets[k].position)
    /\ invadersObs.frames > 0 /\ invadersObs.ticked
          => \A k \in 1..Len(invaders.bullets) :
                \E bullet \in BulletsOfTick : invaders.bullets[k] = Flown(bullet)
    /\ invadersObs.frames > 0 /\ ~invadersObs.ticked
          => \A k \in 1..Len(invadersObs.before.bullets) :
                invaders.bullets[k] = invadersObs.before.bullets[k]

\* A tick in which an enemy standing beyond the right edge fired: its bullet
\* is gone, while a bullet fired on the screen flies on.
C34_Witness ==
    /\ invadersObs.ticked
    /\ \E i \in 1..Len(invadersObs.evaluated) :
          /\ invadersObs.evaluated[i].fired
          /\ ~InBounds(Flown(PushedBy(i)).position)
          /\ \A k \in 1..Len(invaders.bullets) : invaders.bullets[k] # Flown(PushedBy(i))
    /\ \E i \in 1..Len(invadersObs.evaluated) :
          /\ invadersObs.evaluated[i].fired
          /\ \E k \in 1..Len(invaders.bullets) : invaders.bullets[k] = Flown(PushedBy(i))

\* The player fired in an update without a tick.
C34_WitnessPlayerFired ==
    /\ invadersObs.frames > 0
    /\ ~invadersObs.ticked
    /\ Len(invaders.bullets) > Len(invadersObs.before.bullets)

\* C35: a Left, Right or Up input changes the intended position or rotation
\* of the figure only if more than MINIMUM_USER_INPUT_DISTANCE of frame time
\* has accumulated since the last accepted input, so that two such
\* adjustments are always more than that apart.
C35_RepeatGated ==
    [][tetrisObs'.adjusted
         => /\ tetrisObs'.key \in {"Left", "Right", "Up"}
            /\ tetris.from_last_user_input + tetrisObs'.dt > MINIMUM_USER_INPUT_DISTANCE
            /\ tetris'.from_last_user_input = 0
            /\ \/ tetrisObs.since_adjusted = -1
               \/ tetrisObs.since_adjusted + tetrisObs'.dt
                     > MINIMUM_USER_INPUT_DISTANCE]_tetrisVars

\* A Left that came too soon after an adjustment and changed nothing.
C35_Witness ==
    /\ tetrisObs.frames > 1
    /\ tetrisObs.key = "Left"
    /\ ~tetrisObs.overlap
    /\ ~tetrisObs.adjusted
    /\ tetrisObs.since_adjusted \in 1..MINIMUM_USER_INPUT_DISTANCE

\* A Left accepted after an earlier one.
C35_WitnessAccepted ==
    /\ tetrisObs.frames > 1
    /\ tetrisObs.key = "Left"
    /\ tetrisObs.adjusted
    /\ tetrisObs.pre.last_user_input = "Left"

\* C36: while the frames keep advancing the time, a falling figure
\* eventually locks or the game ends.
C36_FigureLocks ==
    <>(tetrisObs.placed \/ tetrisObs.event = "GameOver")

\* A frame in which the descent was due but the figure stayed where it was,
\* in the air, because the Left of the same frame led into the wall.
C36_DescentLost ==
    /\ tetrisObs.frames > 0
    /\ tetrisObs.key = "Left"
    /\ tetrisObs.adjusted
    /\ tetrisObs.move.new_position.y > tetrisObs.pre.current_figure_position.y
    /\ ~tetrisObs.can_move
    /\ ~tetrisObs.placed
    /\ tetrisObs.event = "GameContinue"
    /\ tetris.current_figure_position = tetrisObs.pre.current_figure_position
    /\ tetris.from_prev_descend = 0

\* The figure locks or the game ends, unless moves keep being refused.
C36_LocksUnlessRefused ==
    []<>(\/ tetrisObs.placed
         \/ tetrisObs.event = "GameOver"
         \/ tetrisObs.frames > 0 /\ ~tetrisObs.can_move)

\* C37: the enemies of a game start at pairwise distinct positions, and
\* after any sequence of updates no two live enemies are within the
\* proximity radius of each other.
C37_EnemiesApart ==
    \A i, j \in 1..Len(invaders.enemies) :
       i # j => ~Compare(invaders.enemies[i].position, invaders.enemies[j].position,
                         MORE_THAN_HALF_CELL)

\* Two live enemies in one cell after a tick in which both moved there, one
\* downwards and one to the left; the cell was free when the tick began.
C37_SharedCell ==
    /\ invadersObs.ticked
    /\ \A i, j \in 1..Len(invadersObs.before.enemies) :
          i # j => ~Compare(invadersObs.before.enemies[i].position,
                            invadersObs.before.enemies[j].position, MORE_THAN_HALF_CELL)
    /\ \E i, j \in 1..Len(invaders.enemies) :
          /\ i < j
          /\ invaders.enemies[i].position = invaders.enemies[j].position
          /\ \A k \in 1..Len(invadersObs.before.enemies) :
                invadersObs.before.enemies[k].position # invaders.enemies[i].position

(***************************************************************************)
(* Properties of the pure functions                                        *)
(***************************************************************************)

\* the call of the given function has been made
Called(op) == call.op = op /\ call.done

\* C23: segment intersection is symmetric: for all pairs of segments a, b of
\* the same basis (including degenerate, parallel and collinear ones),
\* a.intersects(b) equals b.intersects(a).
C23_IntersectsSymmetric ==
    Called("intersects") => call.result.direct = call.result.swapped

\* Two segments that meet at an end of the second one only: they intersect
\* in both orders.
C23_Witness ==
    /\ Called("intersects")
    /\ call.result.direct
    /\ call.result.swapped
    /\ call.args.other.end # call.args.l.begin
    /\ call.args.other.end # call.args.l.end
    /\ Cross(PtSub(call.args.other.end, call.args.l.begin),
             PtSub(call.args.l.end, call.args.l.begin)) = 0

\* A degenerate segment and a collinear pair: no intersection in either order.
C23_WitnessDegenerate ==
    /\ Called("intersects")
    /\ call.args.l.begin = call.args.l.end
    /\ ~call.result.direct
    /\ ~call.result.swapped

\* the point of a bounds_check call as the Screen-basis test sees it
CheckedX == IF call.args.basis = "Game" THEN call.args.p.x * 2 ELSE call.args.p.x
CheckedY == call.args.p.y

\* The edges the point of the call lies beyond.
BeyondTop == Round(CheckedY) < 0
BeyondBottom == Round(CheckedY) > call.args.height
BeyondLeft == Round(CheckedX) < 0
BeyondRight == Round(CheckedX) > call.args.width - 2

\* C24: bounds_check on a Screen-basis point returns Top if round(y) < 0, else
\* Bottom if round(y) > screen_height, else Left if round(x) < 0, else Right
\* if round(x) > screen_width - 2, else none: of several violated edges the
\* first in the order top, bottom, left, right is reported; a Game-basis point
\* is checked after doubling its x.
C24_FirstEdgeInOrder ==
    Called("bounds_check") =>
        /\ BeyondTop => call.result = "Top"
        /\ ~BeyondTop /\ BeyondBottom => call.result = "Bottom"
        /\ ~BeyondTop /\ ~BeyondBottom /\ BeyondLeft => call.result = "Left"
        /\ ~BeyondTop /\ ~BeyondBottom /\ ~BeyondLeft /\ BeyondRight
              => call.result = "Right"
        /\ ~BeyondTop /\ ~BeyondBottom /\ ~BeyondLeft /\ ~BeyondRight
              => call.result = None

\* A Game-basis point beyond the bottom and the right edge, inside the
\* screen before its x is doubled: Bottom is reported.
C24_Witness ==
    /\ Called("bounds_check")
    /\ call.args.basis = "Game"
    /\ BeyondBottom
    /\ BeyondRight
    /\ Round(call.args.p.x) <= call.args.width - 2
    /\ call.result = "Bottom"

\* A Game-basis point reported beyond the right edge because of the doubling.
C24_WitnessDoubled ==
    /\ Called("bounds_check")
    /\ call.args.basis = "Game"
    /\ Round(call.args.p.x) <= call.args.width - 2
    /\ call.result = "Right"

\* The x of the converted point is a finite number.
FiniteX == call.args.p.x.kind = "num"

\* Doubling the x stays within f32::MAX.
DoublesExactly == FiniteX /\ 2 * Abs(call.args.p.x.v) <= FloatMax

\* Halving the x loses no bit: it is zero or at least twice MIN_POSITIVE.
HalvesExactly ==
    FiniteX /\ (call.args.p.x.v = 0 \/ Abs(call.args.p.x.v) >= 2 * FloatMinPositive)

\* C25 as stated: for every point p, converting p from Game basis to Screen
\* basis and back yields p, and converting from Screen basis to Game basis and
\* back yields p.
C25_RoundTrip ==
    Called("round_trip") => PointEq(call.result.back, call.args.p)

\* C25, amended: for a point p whose y is not NaN, the round trip from Game
\* basis yields p when x is finite with |x| <= f32::MAX / 2, and the round trip
\* from Screen basis yields p when x is zero or finite with
\* |x| >= 2 * f32::MIN_POSITIVE.
C25_RoundTripInRange ==
    Called("round_trip") /\ call.args.p.y.kind # "nan" =>
        /\ call.args.basis = "Game" /\ DoublesExactly
              => PointEq(call.result.back, call.args.p)
        /\ call.args.basis = "Screen" /\ HalvesExactly
              => PointEq(call.result.back, call.args.p)

\* A subnormal x taken from Game basis to Screen basis and back unchanged.
C25_Witness ==
    /\ Called("round_trip")
    /\ call.args.basis = "Game"
    /\ DoublesExactly
    /\ call.args.p.x.v # 0
    /\ Abs(call.args.p.x.v) < FloatMinPositive
    /\ call.result.there # call.args.p
    /\ PointEq(call.result.back, call.args.p)

\* A finite x above f32::MAX / 2 comes back infinite from Screen basis.
C25_Overflow ==
    /\ Called("round_trip")
    /\ call.args.basis = "Game"
    /\ FiniteX
    /\ call.result.back.x.kind = "inf"

\* A normal x below 2 * f32::MIN_POSITIVE loses its last bit in Game basis.
C25_LastBitLost ==
    /\ Called("round_trip")
    /\ call.args.basis = "Screen"
    /\ FiniteX
    /\ Abs(call.args.p.x.v) >= FloatMinPositive
    /\ call.result.back # call.args.p

\* C26: for every figure type, applied_rotation_and_position with rotation 0
\* and position (0,0) returns exactly that type's four template points, in
\* template order.
C26_IdentityCase ==
    /\ Called("applied_rotation_and_position")
    /\ call.args.rotation = 0
    /\ call.args.position = Pt(0, 0)
    => call.result = Points(call.args.figure_type)

\* The identity case of a type whose pivot is neither the origin nor one of
\* its points.
C26_Witness ==
    /\ Called("applied_rotation_and_position")
    /\ call.args.rotation = 0
    /\ call.args.position = Pt(0, 0)
    /\ call.args.figure_type = "Line"
    /\ call.result = Points("Line")

\* A quarter turn does move the points.
C26_WitnessTurned ==
    /\ Called("applied_rotation_and_position")
    /\ call.args.rotation = 1
    /\ call.args.position = Pt(0, 0)
    /\ call.result # Points(call.args.figure_type)

\* the action list is non-empty and the pointer is an index into it
ValidPointer(behavior) ==
    /\ Len(behavior.actions) > 0
    /\ behavior.current_action \in 0..(Len(behavior.actions) - 1)

\* C27: constructing an enemy action with a chance outside [0,100], or an
\* enemy behaviour with an empty action list or a start pointer not below the
\* list length, aborts at construction; hence every constructed behaviour has
\* a non-empty action list and a pointer that is a valid index into it, also
\* after any number of pointer advances.
C27_ConstructionContract ==
    /\ Called("EnemyAction::new") =>
          (Panicked(call.result) <=> (call.args.chance < 0 \/ call.args.chance > 100))
    /\ Called("EnemyBehavior::new") =>
          IF Len(call.args.actions) = 0 \/ call.args.current_action >= Len(call.args.actions)
          THEN Panicked(call.result)
          ELSE ~Panicked(call.result) /\ ValidPointer(call.result)

\* The pointer of a constructed behaviour has gone round its list: it started
\* at the last action and has been advanced more often than the list is long.
C27_Witness ==
    /\ Called("EnemyBehavior::new")
    /\ ~Panicked(call.result)
    /\ call.args.current_action = Len(call.args.actions) - 1
    /\ call.steps > Len(call.args.actions)
    /\ call.result.current_action = 0

\* The constructions that abort.
C27_WitnessAborts ==
    /\ Called("EnemyBehavior::new")
    /\ Len(call.args.actions) > 0
    /\ Panicked(call.result)

\* C27 in the game: every enemy of every state of Space Invaders has a
\* non-empty action list and a valid pointer.
C27_EnemiesValid ==
    \A i \in 1..Len(invaders.enemies) :
        /\ ~Panicked(invaders.enemies[i].behavior)
        /\ ValidPointer(invaders.enemies[i].behavior)
        /\ \A k \in 1..Len(invaders.enemies[i].behavior.actions) :
              ~Panicked(invaders.enemies[i].behavior.actions[k])

(***************************************************************************)
(* Properties of the frame loop and the input channel                      *)
(***************************************************************************)

IsSuffix(s, t) == Len(s) <= Len(t) /\ s = SubSeq(t, Len(t) - Len(s) + 1, Len(t))

\* C1 (as stated): when key events are queued at the moment the frame loop
\* polls input, update is handed the most recently enqueued one and the
\* earlier ones are discarded; with an empty queue update receives no event.
C1_LastWins ==
    mainpc = "update" =>
        /\ input = (IF poll.snapshot = <<>> THEN None
                    ELSE poll.snapshot[Len(poll.snapshot)])
        /\ poll.consumed >= Len(poll.snapshot)

\* C1 (amended): update is handed the OLDEST event queued at the poll; every
\* later queued event (and any event that arrives while the drain runs) is
\* discarded; with an empty queue at the poll update receives no event.
C1_FirstWins ==
    mainpc = "update" =>
        /\ input = (IF poll.snapshot = <<>> THEN None ELSE poll.snapshot[1])
        /\ poll.consumed >= Len(poll.snapshot)

C1_Witness ==
    /\ mainpc = "update"
    /\ Len(poll.snapshot) >= 2
    /\ poll.snapshot[1] # poll.snapshot[2]
    /\ input = poll.snapshot[1]

\* C9: each iteration of the game loop calls update exactly once; draw is
\* called in that iteration iff update returned GameContinue, after update
\* and with the same elapsed duration; after GameOver neither update nor
\* draw is called again on that game instance.
C9_UpdateThenDraw ==
    /\ mainpc = "draw" => iter.updates = 1 /\ iter.draws = 0
                          /\ iter.result = "GameContinue"
    /\ mainpc = "sleep" => iter.updates = 1 /\ iter.draws = 1
                           /\ iter.result = "GameContinue"
                           /\ iter.drawDt = iter.updDt
    /\ mainpc = "post" => iter.updates = 1 /\ iter.draws = 0
                          /\ iter.result = "GameOver"
    /\ mainpc \in {"frame", "poll", "drain", "update", "draw", "sleep"} => ~game.over
    /\ ~iter.afterOver

C9_Witness ==
    /\ mainpc = "post"
    /\ game.id = 2
    /\ iter.result = "GameOver"
    /\ iter.updDt > 0

\* C10: the reader thread enqueues every key event it reads, in the order
\* read, and terminates only after a send failed because the receiver was
\* dropped; it never terminates while the receiver is alive.
C10_ReaderForwardsAll ==
    /\ reader.pc = "read" => readLog = sentLog
    /\ reader.pc = "send" => readLog = Append(sentLog, reader.key)
    /\ reader.pc = "done" => ~rxAlive /\ readLog = Append(sentLog, reader.key)
    /\ IsSuffix(queue, sentLog)

C10_Witness ==
    /\ reader.pc = "done"
    /\ Len(sentLog) >= 2

(***************************************************************************)
(* Properties of Pong                                                      *)
(***************************************************************************)

\* C5 (as stated): in an update in which the ball's proposed position
\* violates the left or right bound, the x-velocity sign flips exactly once
\* and the ball ends the update at its position before the update.
C5_BallHeldAtWall ==
    pongObs.bounds \in {"Left", "Right"} =>
        /\ Sgn(pong.ball.velocity.x) = -Sgn(pongObs.pre.velocity.x)
        /\ pong.ball.position = pongObs.pre.position

\* C5 (amended): in such an update the wall arm negates the x-velocity
\* exactly once (a plank hit in the same update then adds its offset term),
\* and the ball ends the update at its pre-update position advanced by the
\* resulting velocity times the elapsed time: it is moved away from the
\* wall, not held at the pre-update position.
C5_BallReflectedAtWall ==
    pongObs.bounds \in {"Left", "Right"} =>
        /\ pong.ball.velocity.x =
              -pongObs.pre.velocity.x
              + (IF pongObs.plankHit
                 THEN (pongObs.pre.position.x - pongObs.plankX) * VELOCITY_X_SCALE
                 ELSE 0)
        /\ pong.ball.position =
              Pt(pongObs.pre.position.x + MulDt(pong.ball.velocity.x, pongObs.dt),
                 pongObs.pre.position.y + MulDt(pong.ball.velocity.y, pongObs.dt))

C5_Witness ==
    /\ pongObs.bounds \in {"Left", "Right"}
    /\ ~pongObs.plankHit
    /\ pong.ball.velocity.x = -pongObs.pre.velocity.x
    /\ pong.ball.position.x # pongObs.pre.position.x

\* the last update's proposed ball position left through the top or the bottom
OutOfBoard == pongObs.frames > 0 /\ pongObs.bounds \in {"Top", "Bottom"}

\* a velocity component's magnitude lies within [MIN_INITIAL_SPEED, MAX_INITIAL_SPEED]
InitialRange(v) == MIN_INITIAL_SPEED <= Abs(v) /\ Abs(v) <= MAX_INITIAL_SPEED

\* C14: where the ball's proposed position violates the top bound the score
\* is incremented by 1, where it violates the bottom bound it is decremented
\* by 1; after either event the ball is at the screen center and each
\* component of its velocity has magnitude within [MIN_INITIAL_SPEED,
\* MAX_INITIAL_SPEED].
C14_ScoreAndReset ==
    /\ (pongObs.frames > 0 /\ pongObs.bounds = "Top") => pong.score = pongObs.score + 1
    /\ (pongObs.frames > 0 /\ pongObs.bounds = "Bottom") => pong.score = pongObs.score - 1
    /\ (pongObs.frames > 0 /\ pongObs.bounds \notin {"Top", "Bottom"})
          => pong.score = pongObs.score
    /\ OutOfBoard =>
          /\ 2 * ToScreen(pong.ball.position).x = pongObs.reset[1] * 100
          /\ 2 * ToScreen(pong.ball.position).y = pongObs.reset[2] * 100
          /\ InitialRange(pong.ball.velocity.x)
          /\ InitialRange(pong.ball.velocity.y)

\* The ball left through the top and the enemy side scored.
C14_Witness ==
    /\ OutOfBoard
    /\ pongObs.bounds = "Top"
    /\ pong.score = pongObs.score + 1
    /\ Abs(pong.ball.velocity.y) = MIN_INITIAL_SPEED

\* The ball left through the bottom.
C14_WitnessBottom ==
    /\ OutOfBoard
    /\ pongObs.bounds = "Bottom"
    /\ pong.score = pongObs.score - 1

\* the position the last update proposed for the ball
Proposed ==
    Pt(pongObs.pre.position.x + MulDt(pongObs.pre.velocity.x, pongObs.dt),
       pongObs.pre.position.y + MulDt(pongObs.pre.velocity.y, pongObs.dt))

\* the plank on the side the ball was heading toward in the last update
FacedPlank == IF pongObs.pre.velocity.y < 0 THEN pongObs.enemy ELSE pongObs.player

\* the segment from the ball's previous position to the given one crosses the
\* extended plank the ball was heading toward
CrossesPlank(to) ==
    /\ pongObs.frames > 0
    /\ pongObs.event = "GameContinue"
    /\ Intersects(Line(Pt(FacedPlank.position.x - FacedPlank.length * 50
                              - COLLISION_EXTRA_LENGTH, FacedPlank.position.y),
                       Pt(FacedPlank.position.x + FacedPlank.length * 50
                              + COLLISION_EXTRA_LENGTH, FacedPlank.position.y)),
                  Line(pongObs.pre.position, to))

\* the ball was returned by the plank, vx being its horizontal velocity
\* before the return and ball_x the ball's x; a ball reset in the same update
\* shows nothing
Returned(vx, ball_x) ==
    pongObs.bounds \in {"Top", "Bottom"}
    \/ /\ pong.ball.velocity.y = ScaleY(-pongObs.pre.velocity.y)
       /\ pong.ball.velocity.x = vx + (ball_x - FacedPlank.position.x) * VELOCITY_X_SCALE

\* C15 as stated: when the segment from the ball's previous position to its
\* proposed position crosses the extended plank on the side the ball is
\* heading toward, the vertical velocity changes sign and is multiplied by
\* 1.1, and 3 x (ball x - plank center x) is added to the horizontal velocity
\* (as it is before or after a side-wall bounce of the same update, with the
\* ball's x as proposed or as put back by that bounce).
C15_ReturnWhenProposedCrosses ==
    CrossesPlank(Proposed) =>
        \/ Returned(pongObs.pre.velocity.x, Proposed.x)
        \/ Returned(-pongObs.pre.velocity.x, Proposed.x)
        \/ Returned(-pongObs.pre.velocity.x, pongObs.pre.position.x)

\* the position the plank test of the last update used: the proposed one,
\* with its x put back when the proposed position violated a side bound
Tested ==
    IF pongObs.bounds \in {"Left", "Right"}
    THEN Pt(pongObs.pre.position.x, Proposed.y) ELSE Proposed

\* What update does instead: when the segment from the ball's previous
\* position to the tested position crosses the extended plank on the side the ball is heading
\* toward, and the ball is not reset in that update, the vertical velocity
\* changes sign and is multiplied by 1.1, and 3 x (tested x - plank center x)
\* is added to the horizontal velocity, after the side-wall arm negated it if
\* a side bound was violated.
C15_ReturnWhenTestedCrosses ==
    (CrossesPlank(Tested) /\ pongObs.bounds \notin {"Top", "Bottom"}) =>
        /\ pong.ball.velocity.y = ScaleY(-pongObs.pre.velocity.y)
        /\ pong.ball.velocity.x =
              (IF pongObs.bounds \in {"Left", "Right"}
               THEN -pongObs.pre.velocity.x ELSE pongObs.pre.velocity.x)
              + (Tested.x - FacedPlank.position.x) * VELOCITY_X_SCALE

\* A ball returned by the plank it was heading toward.
C15_Witness ==
    /\ CrossesPlank(Tested)
    /\ pongObs.bounds = None
    /\ Sgn(pong.ball.velocity.y) = -Sgn(pongObs.pre.velocity.y)
    /\ Abs(pong.ball.velocity.y) > Abs(pongObs.pre.velocity.y)

\* The proposed segment crosses the plank, the tested one does not.
C15_WitnessWall ==
    /\ CrossesPlank(Proposed)
    /\ ~CrossesPlank(Tested)
    /\ pong.ball.velocity.y = pongObs.pre.velocity.y

\* A ball that crossed the plank and left the board in the same update.
C15_WitnessReset ==
    /\ CrossesPlank(Tested)
    /\ pongObs.bounds \in {"Top", "Bottom"}

\* A return in the extension of the plank only.
C15_WitnessExtension ==
    /\ CrossesPlank(Tested)
    /\ pongObs.bounds = None
    /\ ~CollidesUnextended(FacedPlank.position, FacedPlank.length,
                           pongObs.pre.position, Tested)

(***************************************************************************)
(* Properties of Tetris                                                    *)
(***************************************************************************)

\* the cells of the current figure, as the final check of update computes them
CurrentCells ==
    AppliedRotationAndPosition(tetris.current_figure, tetris.current_figure.rotation,
                               tetris.current_figure_position)

\* an update that got past the overlap check, rejected the move and did not lock
RejectedUnlocked ==
    /\ tetrisObs.frames > 0
    /\ ~tetrisObs.overlap
    /\ ~tetrisObs.can_move
    /\ ~tetrisObs.placed

\* every cell / some cell of the current figure lies above the loss line
AllCellsAbove == \A i \in 1..4 : CurrentCells[i].y < LOSE_LINE

SomeCellAbove == \E i \in 1..4 : CurrentCells[i].y < LOSE_LINE

\* C6 as stated: update signals GameOver whenever the move was rejected, the
\* figure did not lock and any one of the figure's cells lies above the loss line.
C6_GameOverWhenAnyCellAbove ==
    (RejectedUnlocked /\ SomeCellAbove) => tetrisObs.event = "GameOver"

\* C6 amended: when the move was rejected and the figure did not lock, update
\* signals GameOver if and only if all of the figure's cells lie above the loss
\* line; a figure with only some cells above it lets the game continue.
C6_GameOverWhenAllCellsAbove ==
    RejectedUnlocked =>
        /\ AllCellsAbove => tetrisObs.event = "GameOver"
        /\ ~AllCellsAbove => tetrisObs.event = "GameContinue"

\* A rejected, unlocked figure with some but not all cells above the loss
\* line: the game continues.
C6_Witness ==
    /\ RejectedUnlocked
    /\ SomeCellAbove
    /\ ~AllCellsAbove
    /\ tetrisObs.event = "GameContinue"

\* A rejected, unlocked figure with every cell above the loss line: GameOver.
C6_WitnessAll ==
    /\ RejectedUnlocked
    /\ AllCellsAbove
    /\ tetrisObs.event = "GameOver"

\* an update that got past the overlap check and so compared the gravity timer
\* with a descend interval
UsedInterval == tetrisObs.frames > 0 /\ ~tetrisObs.overlap

\* C7 as stated: a Down key makes the descend interval fast for that update
\* only; every update without a Down key (no key at all included) uses the
\* slow default.
C7_FastForThatUpdateOnly ==
    UsedInterval =>
        /\ tetrisObs.key = "Down" => tetrisObs.interval = TO_DESCEND_FAST
        /\ tetrisObs.key # "Down" => tetrisObs.interval = TO_DESCEND_SLOW

\* C7 amended: a Down key makes the descend interval fast; a key other than
\* Down makes it slow; an update with no key keeps the interval the previous
\* update left, so the fast rate persists through updates without input until
\* a key other than Down arrives or the figure locks (which resets it to slow).
C7_FastUntilOtherKeyOrLock ==
    UsedInterval =>
        /\ tetrisObs.key = "Down" => tetrisObs.interval = TO_DESCEND_FAST
        /\ tetrisObs.key \notin {"Down", None} => tetrisObs.interval = TO_DESCEND_SLOW
        /\ tetrisObs.key = None => tetrisObs.interval = tetrisObs.pre_to_descend
        /\ tetris.to_descend = IF tetrisObs.placed THEN TO_DESCEND_SLOW
                               ELSE tetrisObs.interval

\* An update without a key, after a Down key, still fast.
C7_Witness ==
    /\ UsedInterval
    /\ tetrisObs.key = None
    /\ tetrisObs.interval = TO_DESCEND_FAST

\* A Down key on the update that locks the figure: the interval is slow afterwards.
C7_WitnessLock ==
    /\ UsedInterval
    /\ tetrisObs.key = "Down"
    /\ tetrisObs.placed
    /\ tetris.to_descend = TO_DESCEND_SLOW

\* the figure's cells at the start of the last update
CellsBefore ==
    AppliedRotationAndPosition(tetrisObs.pre.current_figure,
                               tetrisObs.pre.current_figure.rotation,
                               tetrisObs.pre.current_figure_position)

\* at the start of the last update a cell of the figure was on an occupied
\* board cell
OverlappedBefore ==
    /\ tetrisObs.frames > 0
    /\ \E i \in 1..4 :
          tetrisObs.pre.board[Row(CellsBefore[i])][Col(CellsBefore[i])] # None

\* C21: if at the start of a Tetris update any cell of the current figure
\* overlaps an occupied board cell, update returns GameOver immediately: the
\* board, the figure's position and rotation, the next figure and the score
\* are unchanged by that update.
C21_GameOverOnOverlap ==
    OverlappedBefore =>
       /\ tetrisObs.event = "GameOver"
       /\ tetris.board = tetrisObs.pre.board
       /\ tetris.current_figure = tetrisObs.pre.current_figure
       /\ tetris.current_figure_position = tetrisObs.pre.current_figure_position
       /\ tetris.next_figure = tetrisObs.pre.next_figure
       /\ tetris.score = tetrisObs.pre.score

\* An update that began with the figure on some occupied cells and some free
\* ones.
C21_Witness ==
    /\ OverlappedBefore
    /\ \E i \in 1..4 :
          tetrisObs.pre.board[Row(CellsBefore[i])][Col(CellsBefore[i])] = None
    /\ tetrisObs.event = "GameOver"

\* the last update locked the figure
\* The last update went through its move step.
MoveStepTaken == tetrisObs.frames > 0 /\ ~tetrisObs.overlap

\* The position and rotation the figure had before the update.
PlaceBefore ==
    <<tetrisObs.pre.current_figure_position, tetrisObs.pre.current_figure.rotation>>

\* The position and rotation the move step tried (shift, rotation and gravity
\* step together) and the ones it left.
PlaceTried == <<tetrisObs.move.new_position, tetrisObs.move.new_rotation>>
PlaceLeft == <<tetrisObs.move.position, tetrisObs.move.rotation>>

\* The cell has a column in [0, WIDTH), a row below HEIGHT and is not occupied
\* on the board the update started with (no board cell lies above row 0).
FreeBoardCell(p) ==
    /\ Round(p.x) >= 0
    /\ Round(p.x) < WIDTH
    /\ Round(p.y) < HEIGHT
    /\ Round(p.y) >= 0 => tetrisObs.pre.board[Round(p.y)][Round(p.x)] = None

\* C29: horizontal shift, rotation and gravity step of one update are applied
\* together or not at all; they are applied only if all four resulting cells
\* have a column in [0, WIDTH), a row below HEIGHT and are unoccupied;
\* otherwise the move step leaves position and rotation unchanged.
C29_MoveAllOrNothing ==
    MoveStepTaken =>
        /\ PlaceLeft = PlaceTried \/ PlaceLeft = PlaceBefore
        /\ PlaceLeft # PlaceBefore => \A i \in 1..4 : FreeBoardCell(tetrisObs.cells[i])

\* A shift and a gravity step applied together.
C29_Witness ==
    /\ MoveStepTaken
    /\ tetrisObs.move.position.x # tetrisObs.pre.current_figure_position.x
    /\ tetrisObs.move.position.y # tetrisObs.pre.current_figure_position.y
    /\ \A i \in 1..4 : FreeBoardCell(tetrisObs.cells[i])

\* A shift and a gravity step refused together, though the gravity step alone
\* would have led to free cells.
C29_WitnessRefused ==
    /\ MoveStepTaken
    /\ tetrisObs.move.new_position.x # tetrisObs.pre.current_figure_position.x
    /\ tetrisObs.move.new_position.y # tetrisObs.pre.current_figure_position.y
    /\ PlaceLeft = PlaceBefore
    /\ \A i \in 1..4 :
          FreeBoardCell(Pt(tetrisObs.cells[i].x, tetrisObs.cells[i].y + 100))

Locked == tetrisObs.frames > 0 /\ tetrisObs.placed

\* every cell of the row is occupied
FullRow(board, r) == \A c \in 0..(WIDTH - 1) : board[r][c] # None

\* the groups of consecutive full rows of the board, from the bottom up: the
\* number of rows of each group whose lowest row is below the loss line
RECURSIVE FullGroups(_, _, _, _)
FullGroups(board, r, run, acc) ==
    IF r < 0 THEN (IF run > 0 THEN Append(acc, run) ELSE acc)
    ELSE IF FullRow(board, r) /\ (run > 0 \/ r > Round(LOSE_LINE))
    THEN FullGroups(board, r - 1, run + 1, acc)
    ELSE FullGroups(board, r - 1, 0, IF run > 0 THEN Append(acc, run) ELSE acc)

\* the score and the back-to-back status after the groups from the i-th on,
\* as C18 gives them
RECURSIVE ScoredGroups(_, _, _)
ScoredGroups(sizes, i, st) ==
    IF i > Len(sizes) THEN st
    ELSE ScoredGroups(sizes, i + 1,
            IF sizes[i] >= 4
            THEN [score |-> st.score + (IF st.last THEN 300 ELSE 200) * sizes[i],
                  last |-> TRUE]
            ELSE [score |-> st.score + 100 * sizes[i], last |-> FALSE])

\* the groups of full rows the bake of the last update left on the board
BakedGroups == FullGroups(tetrisObs.baked, HEIGHT - 1, 0, <<>>)

\* C18 as stated: when a group of 4 or more consecutive full rows is cleared
\* it scores 200 per row if the previous clear was not a 4+ group and 300 per
\* row if the previous clear was also a 4+ group with no smaller clear in
\* between; a group of 1-3 rows scores 100 per row and resets the
\* back-to-back status.
C18_GroupScores ==
    (Locked /\ tetrisObs.event # "Panic") =>
       LET st == ScoredGroups(BakedGroups, 1,
                              [score |-> tetrisObs.pre.score,
                               last |-> tetrisObs.pre.is_tetris_was_last])
       IN  /\ tetris.score = st.score
           /\ tetris.is_tetris_was_last = st.last

\* the back-to-back status before the i-th pass of the last update
PassLast(i) ==
    IF i = 1 THEN tetrisObs.pre.is_tetris_was_last
    ELSE tetrisObs.groups[i - 1].lines_in_row >= 4

\* What update does: every pass of the clearing loop that finds full rows
\* scores them by that rule, the rows a shift left in place included.
C18_PassScores ==
    Locked =>
       \A i \in 1..Len(tetrisObs.groups) :
          LET n == tetrisObs.groups[i].lines_in_row
          IN  tetrisObs.groups[i].points =
                 IF n >= 4 THEN (IF PassLast(i) THEN 300 ELSE 200) * n ELSE 100 * n

\* A lock that completed one group of four rows, two of which the shift left
\* in place and a second pass scored again: 1000 points, status reset.
C18_StaleRowsScored ==
    /\ Locked
    /\ BakedGroups = <<4>>
    /\ Len(tetrisObs.groups) = 2
    /\ tetris.score = tetrisObs.pre.score + 1000
    /\ ~tetris.is_tetris_was_last

\* A lock that completed one group of two rows and scored 200.
C18_SmallGroup ==
    /\ Locked
    /\ BakedGroups = <<2>>
    /\ tetrisObs.pre.is_tetris_was_last
    /\ tetris.score = tetrisObs.pre.score + 200
    /\ ~tetris.is_tetris_was_last

\* the board the figure's cells are held against: that before the update
RestBoard == IF tetrisObs.placed THEN tetrisObs.pre.board ELSE tetris.board

\* a cell of the figure is in the bottom row or directly above an occupied cell
FigureRests ==
    \E i \in 1..Len(tetrisObs.cells) :
       LET x == Round(tetrisObs.cells[i].x)
           y == Round(tetrisObs.cells[i].y)
       IN  \/ y = HEIGHT - 1
           \/ /\ y + 1 \in 0..(HEIGHT - 1)
              /\ RestBoard[y + 1][x] # None

\* the board cells the bake of the last update changed, as <<row, column>>
WrittenCells ==
    {rc \in (0..(HEIGHT - 1)) \X (0..(WIDTH - 1)) :
        tetrisObs.baked[rc[1]][rc[2]] # tetrisObs.pre.board[rc[1]][rc[2]]}

\* the swap of the figures and the reset of the timers at a lock
SwappedAndReset ==
    /\ tetris.current_figure = tetrisObs.pre.next_figure
    /\ tetris.current_figure_position = INIT_FIGURE_POS
    /\ tetris.next_figure.figure_type \in FigureTypes
    /\ tetris.next_figure.rotation = 0
    /\ tetris.from_prev_descend = 0
    /\ tetris.to_descend = TO_DESCEND_SLOW

\* C19 as stated: when, after the move step of an update, any cell of the
\* current figure is in the bottom row or directly above an occupied cell,
\* exactly its four cells are written into the board with its type's color,
\* the queued next figure becomes the current figure at the initial spawn
\* position, a new next figure is generated, the descend timer is reset to
\* zero and the descend interval to the slow default.
C19_LockWritesFourCells ==
    (tetrisObs.frames > 0 /\ ~tetrisObs.overlap /\ FigureRests) =>
       /\ tetrisObs.placed
       /\ Cardinality(WrittenCells) = 4
       /\ WrittenCells =
             {<<Round(tetrisObs.cells[i].y), Round(tetrisObs.cells[i].x)>> : i \in 1..4}
       /\ \A rc \in WrittenCells :
             tetrisObs.baked[rc[1]][rc[2]] =
                GetColor(tetrisObs.pre.current_figure.figure_type)
       /\ SwappedAndReset

\* What update does: the cells are written at the rows and columns the casts
\* to usize give, a cell above the board on row 0.
C19_LockWritesCastCells ==
    (tetrisObs.frames > 0 /\ ~tetrisObs.overlap /\ FigureRests) =>
       /\ tetrisObs.placed
       /\ WrittenCells = {<<Row(tetrisObs.cells[i]), Col(tetrisObs.cells[i])>> : i \in 1..4}
       /\ \A rc \in WrittenCells :
             tetrisObs.baked[rc[1]][rc[2]] =
                GetColor(tetrisObs.pre.current_figure.figure_type)
       /\ SwappedAndReset

\* A lock of a figure that lies on the board.
C19_Witness ==
    /\ Locked
    /\ FigureRests
    /\ Cardinality(WrittenCells) = 4

\* A lock of a figure one cell of which is above the board: three cells are
\* written.
C19_CellAboveBoard ==
    /\ Locked
    /\ FigureRests
    /\ \E i \in 1..4 : tetrisObs.cells[i].y < 0
    /\ Cardinality(WrittenCells) = 3

\* C20: when a group of k consecutive full rows is cleared, every row above
\* the group is moved down by exactly k rows with its contents unchanged, and
\* after the update no row in the scanned range (rows above the loss line up
\* to the bottom row) is completely filled.
C20_RowsMovedDown ==
    tetrisObs.event # "Panic" =>
       /\ \A i \in 1..Len(tetrisObs.groups) :
             LET g == tetrisObs.groups[i]
             IN  \A r \in 0..(g.base - g.lines_in_row) :
                    g.after[r + g.lines_in_row] = g.before[r]
       /\ (Locked /\ Len(BakedGroups) = 1) =>
             \A r \in 0..(tetrisObs.groups[1].base - BakedGroups[1]) :
                tetris.board[r + BakedGroups[1]] = tetrisObs.baked[r]
       /\ \A r \in (Round(LOSE_LINE) + 1)..(HEIGHT - 1) : ~FullRow(tetris.board, r)

\* A lock that completed a group of two rows below rows that hold cells.
C20_Witness ==
    /\ Locked
    /\ Len(tetrisObs.groups) = 1
    /\ tetrisObs.groups[1].lines_in_row = 2
    /\ \E c \in 0..(WIDTH - 1) :
          /\ tetrisObs.baked[tetrisObs.groups[1].base - 2][c] # None
          /\ tetris.board[tetrisObs.groups[1].base][c] # None

(***************************************************************************)
(* Properties of Snake                                                     *)
(***************************************************************************)

\* the joint between segments i and i + 1 is end-to-end continuous
Continuous(i) == snake.snake.segments[i].end = snake.snake.segments[i + 1].begin

\* where a turn whose proposed tip violated the given bound of a screen of
\* the given terminal size begins its segment: the previous end carried to
\* the top row (Bottom), the bottom row (Top), the left column (Left) or the
\* right column (Right)
CarriedToEdge(end, collision, size) ==
    CASE collision = "Bottom" -> Pt(end.x, 0)
      [] collision = "Top"    -> Pt(end.x, size[2] * 100)
      [] collision = "Left"   -> Pt(0, end.y)
      [] collision = "Right"  -> Pt(size[1] * 50, end.y)

\* segment i + 1 begins where the end of segment i is carried to a screen edge
OnScreenEdge(i) ==
    \E size \in SnakeTermSizes, collision \in {"Bottom", "Top", "Left", "Right"} :
       snake.snake.segments[i + 1].begin =
          CarriedToEdge(snake.snake.segments[i].end, collision, size)

\* the last update appended a segment and the segment before it is still there
AppendedJoint ==
    /\ snakeObs.turned
    /\ snakeObs.event # "Panic"
    /\ Len(snake.snake.segments) >= 2

C3_WitnessInside ==
    /\ AppendedJoint
    /\ snakeObs.collision = None
    /\ Continuous(Len(snake.snake.segments) - 1)

\* n[1] / n[2] < m[1] / m[2], both denominators positive
Less(n, m) == n[1] * m[2] < m[1] * n[2]

\* the parameters t with |b + t * d - a| < radius lie strictly between
\* AxisLo and AxisHi (d # 0), as fractions with a positive denominator
AxisLo(b, d, a, radius) == IF d > 0 THEN <<a - radius - b, d>> ELSE <<b - a - radius, -d>>

AxisHi(b, d, a, radius) == IF d > 0 THEN <<a + radius - b, d>> ELSE <<b - a + radius, -d>>

\* some point of the segment l is within the radius of coords (Point::compare)
NearSegment(l, coords, radius) ==
    LET dx == l.end.x - l.begin.x
        dy == l.end.y - l.begin.y
        lows == (IF dx # 0 THEN {AxisLo(l.begin.x, dx, coords.x, radius)} ELSE {})
                \cup (IF dy # 0 THEN {AxisLo(l.begin.y, dy, coords.y, radius)} ELSE {})
        highs == (IF dx # 0 THEN {AxisHi(l.begin.x, dx, coords.x, radius)} ELSE {})
                 \cup (IF dy # 0 THEN {AxisHi(l.begin.y, dy, coords.y, radius)} ELSE {})
    IN  /\ dx = 0 => Abs(l.begin.x - coords.x) < radius
        /\ dy = 0 => Abs(l.begin.y - coords.y) < radius
        /\ \A lo \in lows : Less(lo, <<1, 1>>) /\ \A hi \in highs : Less(lo, hi)
        /\ \A hi \in highs : Less(<<0, 1>>, hi)

\* the apple the last update added
AddedApple == snake.apples[Len(snake.apples)]

\* C8 as stated: every apple added by update lies, when it is added, neither
\* within the pickup radius of any point of any body segment nor within the
\* pickup radius of any apple already there.
C8_AppleOffSnakeAndApples ==
    snakeObs.spawned =>
        /\ \A i \in 1..Len(snakeObs.pre) :
              ~NearSegment(snakeObs.pre[i], AddedApple, apples_RADIUS)
        /\ \A i \in 1..(Len(snake.apples) - 1) :
              ~Compare(AddedApple, snake.apples[i], apples_RADIUS)

\* What the sampling loop does ensure: the added apple is not within the
\* radius of the end point of any segment, nor of any apple already there.
C8_AppleOffSegmentEndsAndApples ==
    snakeObs.spawned =>
        /\ \A i \in 1..Len(snakeObs.pre) :
              ~Compare(AddedApple, snakeObs.pre[i].end, apples_RADIUS)
        /\ \A i \in 1..(Len(snake.apples) - 1) :
              ~Compare(AddedApple, snake.apples[i], apples_RADIUS)

\* An apple added on the body of the snake.
C8_AppleOnBody ==
    /\ snakeObs.spawned
    /\ \E i \in 1..Len(snakeObs.pre) :
          NearSegment(snakeObs.pre[i], AddedApple, apples_RADIUS)

\* the snake's total body length: the sum of its segments' lengths
RECURSIVE TotalLength(_)
TotalLength(segments) ==
    IF segments = <<>> THEN 0 ELSE Length(Head(segments)) + TotalLength(Tail(segments))

\* the growth budget the last update used up
BudgetUsed == snakeObs.budget - snake.to_growth

\* C11 as stated: an update with a zero growth budget leaves the total body
\* length unchanged, and an update with a budget lengthens the body by exactly
\* the part of the budget it uses up, so that an eaten apple adds its growth
\* value (1.0) in total and the length is constant afterwards.
C11_LengthFollowsBudget ==
    (snakeObs.frames > 0 /\ snakeObs.event # "Panic")
       => TotalLength(snake.snake.segments) = TotalLength(snakeObs.pre) + BudgetUsed

\* The same for the updates that carry no segment to a screen edge and whose
\* snake is axis-parallel.
C11_LengthFollowsBudgetInside ==
    (/\ snakeObs.frames > 0
     /\ snakeObs.event # "Panic"
     /\ snakeObs.collision = None
     /\ \A i \in 1..Len(snakeObs.pre) :
           \/ snakeObs.pre[i].begin.x = snakeObs.pre[i].end.x
           \/ snakeObs.pre[i].begin.y = snakeObs.pre[i].end.y)
       => TotalLength(snake.snake.segments) = TotalLength(snakeObs.pre) + BudgetUsed

\* A turn with a zero growth budget whose new segment is carried to a screen
\* edge: the body length changed.
C11_LengthChangedAtEdge ==
    /\ snakeObs.frames > 0
    /\ snakeObs.event # "Panic"
    /\ snakeObs.turned
    /\ snakeObs.collision # None
    /\ snakeObs.budget = 0
    /\ TotalLength(snake.snake.segments) # TotalLength(snakeObs.pre)

\* An apple was eaten and the body grew by the apple's growth value.
C11_GrownByApple ==
    /\ snakeObs.eaten = 1
    /\ snakeObs.budget = apples_GROWTH
    /\ snake.to_growth = 0
    /\ TotalLength(snake.snake.segments) = TotalLength(snakeObs.pre) + apples_GROWTH

\* the head segment at the start of the last update
HeadBefore == snakeObs.pre[Len(snakeObs.pre)]

\* the head segment at the start of the last update intersects the i-th
\* segment, or its tip lies within the body width of it
HeadHits(i) ==
    \/ Intersects(HeadBefore, snakeObs.pre[i])
    \/ DistanceTo(snakeObs.pre[i], HeadBefore.end) < snakes_WIDTH

\* C12: update returns GameOver iff, at its start, the head segment intersects,
\* or the head tip lies within the body width (0.25) of, some segment other
\* than the last two; so never when the body has fewer than 3 segments.
C12_GameOverIffHeadHitsBody ==
    (snakeObs.frames > 0 /\ snakeObs.event # "Panic")
       => /\ snakeObs.event = "GameOver"
                <=> \E i \in 1..(Len(snakeObs.pre) - 2) : HeadHits(i)
          /\ Len(snakeObs.pre) < 3 => snakeObs.event = "GameContinue"

\* An update that returned GameOver for a body of three or more segments.
C12_Witness ==
    /\ snakeObs.event = "GameOver"
    /\ Len(snakeObs.pre) >= 3
    /\ \E i \in 1..(Len(snakeObs.pre) - 2) : HeadHits(i)

\* An update that returned GameContinue although the head touches the
\* segment before it.
C12_WitnessPreHead ==
    /\ snakeObs.event = "GameContinue"
    /\ Len(snakeObs.pre) >= 3
    /\ HeadHits(Len(snakeObs.pre) - 1)

\* the exact opposite of a direction
Opposite(i) == Input(i.down, i.up, i.right, i.left)

\* C13: after an update the stored direction is never the exact opposite of
\* the direction stored before it; an empty input or an input exactly opposite
\* to the previous direction leaves the direction unchanged.
C13_NoReversal ==
    (snakeObs.frames > 0 /\ snakeObs.event # "Panic")
       => /\ snake.prev_non_empty_input # Opposite(snakeObs.prev)
          /\ (\/ InputEmpty(ReadToInput(snakeObs.key))
              \/ ReadToInput(snakeObs.key) = Opposite(snakeObs.prev))
                => snake.prev_non_empty_input = snakeObs.prev

\* An update whose key was exactly opposite to the stored direction.
C13_Witness ==
    /\ snakeObs.frames > 0
    /\ snakeObs.event = "GameContinue"
    /\ snakeObs.prev # Input(FALSE, FALSE, FALSE, TRUE)
    /\ ReadToInput(snakeObs.key) = Opposite(snakeObs.prev)
    /\ snake.prev_non_empty_input = snakeObs.prev

\* the head tip lies on the screen of the last update, edges included
HeadTipOnScreen ==
    LET tip == SnakeHead(snake.snake.segments).end
        screen_size == GetTerminalSize(snakeObs.size)
    IN  /\ 0 <= tip.x /\ tip.x <= screen_size.x
        /\ 0 <= tip.y /\ tip.y <= screen_size.y

\* C22 as stated: after every SnakeGame update the head tip lies within the
\* screen bounds: a head advance that would leave the screen re-enters from
\* the opposite edge, for straight movement as well as for a turn.
C22_HeadTipOnScreen ==
    (snakeObs.frames > 0 /\ snakeObs.event # "Panic") => HeadTipOnScreen

\* An update without a turn that carried the head tip off the screen.
C22_StraightOffScreen ==
    /\ snakeObs.frames > 0
    /\ snakeObs.event # "Panic"
    /\ ~snakeObs.turned
    /\ ~HeadTipOnScreen

\* A turn at an edge that left the head tip off the screen.
C22_TurnOffScreen ==
    /\ snakeObs.frames > 0
    /\ snakeObs.event # "Panic"
    /\ snakeObs.turned
    /\ snakeObs.collision # None
    /\ ~HeadTipOnScreen

(***************************************************************************)
(* Properties of Space Invaders                                            *)
(***************************************************************************)

\* The retry chain as C2 describes it: from the k-th trial on, the trial uses
\* the chance, type and duration of action (s + k) mod n; the first action that
\* succeeds and is executable is applied, its duration is added to the
\* countdown and the pointer becomes the index following it.
RECURSIVE ChainInTurn(_, _, _, _, _, _)
ChainInTurn(enemy, k, rolls, g, screen_width, screen_height) ==
    LET n == Len(enemy.behavior.actions)
        s == enemy.behavior.current_action
        action == enemy.behavior.actions[((s + k) % n) + 1]
    IN  IF k >= n THEN enemy
        ELSE IF /\ IsSuccess(rolls[k + 1], action.chance)
                /\ Executes(action, enemy.position, g, screen_width, screen_height)
        THEN [position |-> IF action.action_type.kind = "Move"
                           THEN Step(enemy.position, action.action_type.direction,
                                     action.action_type.speed)
                           ELSE enemy.position,
              behavior |-> [enemy.behavior EXCEPT
                               !.to_next_move = enemy.behavior.to_next_move + action.duration,
                               !.current_action = (s + k + 1) % n]]
        ELSE ChainInTurn(enemy, k + 1, rolls, g, screen_width, screen_height)

\* the i-th enemy was evaluated in the last tick (its countdown was zero)
Evaluated(i) ==
    /\ invadersObs.ticked
    /\ i \in 1..Len(invadersObs.before.enemies)
    /\ invadersObs.before.enemies[i].behavior.to_next_move = 0

\* the i-th enemy as the chain of C2 leaves it
InTurn(i) ==
    ChainInTurn(invadersObs.before.enemies[i], 0, invadersObs.rolls[i],
                invadersObs.before, invadersObs.size[1], invadersObs.size[2])

\* C2 as stated: in an enemy evaluation starting at pointer s in a list of n
\* actions the k-th trial uses the chance, type and duration of action
\* (s + k) mod n; the first action whose trial succeeds and which is executable
\* is applied, its duration is added to the countdown and the pointer becomes
\* the index following that action.
C2_RetryChainInTurn ==
    \A i \in 1..Len(invadersObs.evaluated) :
       Evaluated(i) => invadersObs.evaluated[i].enemy = InTurn(i)

\* An evaluation whose later trials repeated the action fetched before the
\* loop and so left the enemy different from what the chain of C2 gives.
C2_SameActionRetried ==
    \E i \in 1..Len(invadersObs.evaluated) :
       /\ Evaluated(i)
       /\ invadersObs.evaluated[i].trials >= 2
       /\ invadersObs.evaluated[i].enemy # InTurn(i)

\* C4 as stated: within one tick's collision resolution each bullet marks at
\* most one victim: no second enemy, and no prop besides an enemy.
C4_OneVictimPerBullet ==
    \A b \in 1..Len(invadersObs.victims) :
       Cardinality(invadersObs.victims[b].enemies)
          + Cardinality(invadersObs.victims[b].props) <= 1

\* A bullet that marked two victims in one tick.
C4_TwoVictims ==
    \E b \in 1..Len(invadersObs.victims) :
       Cardinality(invadersObs.victims[b].enemies)
          + Cardinality(invadersObs.victims[b].props) >= 2

\* every action of the full cycle of the i-th enemy fails its trial or is
\* blocked: the k-th trial is that of action (s + k) mod n
FullCycleFails(i) ==
    LET enemy == invadersObs.before.enemies[i]
        n == Len(enemy.behavior.actions)
        s == enemy.behavior.current_action
    IN  \A k \in 0..(n - 1) :
           LET action == enemy.behavior.actions[((s + k) % n) + 1]
           IN  ~(/\ IsSuccess(invadersObs.rolls[i][k + 1], action.chance)
                 /\ Executes(action, enemy.position, invadersObs.before,
                             invadersObs.size[1], invadersObs.size[2]))

\* every trial of the evaluation of the i-th enemy fails: each is a trial of
\* the action the pointer was at when the evaluation began
AllTrialsFail(i) ==
    LET enemy == invadersObs.before.enemies[i]
        action == enemy.behavior.actions[enemy.behavior.current_action + 1]
    IN  \A k \in 1..Len(enemy.behavior.actions) :
           ~(/\ IsSuccess(invadersObs.rolls[i][k], action.chance)
             /\ Executes(action, enemy.position, invadersObs.before,
                         invadersObs.size[1], invadersObs.size[2]))

\* the evaluation left the i-th enemy as it was and fired no bullet
DidNothing(i) ==
    /\ invadersObs.evaluated[i].enemy = invadersObs.before.enemies[i]
    /\ ~invadersObs.evaluated[i].fired

\* C16 as stated: if in an enemy evaluation every action in the full cycle
\* fails its trial or is blocked, then after the tick the enemy's action
\* pointer equals its value before the tick, its position and countdown are
\* unchanged and it fired no bullet.
C16_NothingAfterFailedCycle ==
    \A i \in 1..Len(invadersObs.evaluated) :
       (Evaluated(i) /\ FullCycleFails(i)) => DidNothing(i)

\* What update does: the enemy does nothing when every trial of the action
\* fetched before the loop fails.
C16_NothingAfterFailedTrials ==
    \A i \in 1..Len(invadersObs.evaluated) :
       (Evaluated(i) /\ AllTrialsFail(i)) => DidNothing(i)

\* An enemy whose every action failed its trial or was blocked and that fired
\* all the same.
C16_FiredAfterFailedCycle ==
    \E i \in 1..Len(invadersObs.evaluated) :
       /\ Evaluated(i)
       /\ FullCycleFails(i)
       /\ invadersObs.evaluated[i].fired

\* An evaluation whose every trial failed.
C16_FailedTrials ==
    \E i \in 1..Len(invadersObs.evaluated) :
       /\ Evaluated(i)
       /\ AllTrialsFail(i)
       /\ invadersObs.evaluated[i].trials = 4

\* the orders in which the enemies of the last tick could be processed:
\* first to last, last to first, and from the middle around
ProcessingOrders ==
    LET n == Len(invadersObs.before.enemies)
    IN  {[k \in 1..n |-> k],
         [k \in 1..n |-> n + 1 - k],
         [k \in 1..n |-> ((k + (n \div 2) - 1) % n) + 1]}

\* the enemies of the last tick processed in the given order from its k-th
\* place on, each decision taken against the positions at the start of the
\* tick and with the enemy's own trial outcomes
RECURSIVE ProcessedIn(_, _, _)
ProcessedIn(order, k, new_enemies) ==
    IF k > Len(order) THEN new_enemies
    ELSE LET i == order[k]
         IN  ProcessedIn(order, k + 1,
                [new_enemies EXCEPT ![i] =
                    EvaluatedEnemy(new_enemies[i], invadersObs.rolls[i],
                                   invadersObs.before,
                                   invadersObs.size[1], invadersObs.size[2]).enemy])

\* the enemies as the evaluations of the last tick left them
EvaluatedNow == [i \in 1..Len(invadersObs.evaluated) |-> invadersObs.evaluated[i].enemy]

\* C17: within one tick every enemy's move/fire decision is evaluated against
\* the enemy positions as they were at the start of the tick, so that for the
\* same trial outcomes the resulting enemy positions, pointers and countdowns
\* do not depend on the order in which the enemies are processed.
C17_FrozenSnapshot ==
    invadersObs.ticked =>
       \A order \in ProcessingOrders :
          ProcessedIn(order, 1, invadersObs.before.enemies) = EvaluatedNow

\* A tick in which two enemies moved into one cell, free at the start of the
\* tick: the later one would have been blocked by the earlier one's new
\* position.
C17_Witness ==
    /\ invadersObs.ticked
    /\ \E i, j \in 1..Len(invadersObs.evaluated) :
          /\ i < j
          /\ EvaluatedNow[i].position # invadersObs.before.enemies[i].position
          /\ EvaluatedNow[j].position # invadersObs.before.enemies[j].position
          /\ Compare(EvaluatedNow[i].position, EvaluatedNow[j].position,
                     MORE_THAN_HALF_CELL)

\* The position is in bounds and not within the proximity radius of any
\* enemy's position at the start of the last tick, of any prop or of the
\* player.
FreeDestination(position) ==
    /\ BoundsCheck(position, invadersObs.size[1], invadersObs.size[2]) = None
    /\ \A j \in 1..Len(invadersObs.before.enemies) :
          ~Compare(invadersObs.before.enemies[j].position, position, MORE_THAN_HALF_CELL)
    /\ \A j \in 1..Len(invadersObs.before.props) :
          ~Compare(invadersObs.before.props[j].position, position, MORE_THAN_HALF_CELL)
    /\ ~Compare(invadersObs.before.player.position, position, MORE_THAN_HALF_CELL)

\* The i-th enemy's position was changed by the last tick.
EnemyMoved(i) == EvaluatedNow[i].position # invadersObs.before.enemies[i].position

\* C30: an enemy's position changes during a tick only to a destination that
\* is in bounds and not within the proximity radius of any enemy's
\* start-of-tick position, of any prop, or of the player; otherwise the
\* enemy's position is unchanged.  An update that is no tick moves no enemy.
C30_MovesToFreeDestination ==
    /\ invadersObs.ticked =>
          \A i \in 1..Len(invadersObs.before.enemies) :
             EnemyMoved(i) => FreeDestination(EvaluatedNow[i].position)
    /\ (invadersObs.frames > 0 /\ ~invadersObs.ticked) =>
          /\ Len(invaders.enemies) = Len(invadersObs.before.enemies)
          /\ \A i \in 1..Len(invaders.enemies) :
                invaders.enemies[i].position = invadersObs.before.enemies[i].position

\* A tick in which one enemy moved and another, whose move passed its trial,
\* stayed where it was.
C30_Witness ==
    /\ invadersObs.ticked
    /\ \E i, j \in 1..Len(invadersObs.before.enemies) :
          /\ EnemyMoved(i)
          /\ ~EnemyMoved(j)
          /\ invadersObs.before.enemies[j].behavior.to_next_move = 0
          /\ CurrentAction(invadersObs.before.enemies[j].behavior).action_type.kind = "Move"
          /\ IsSuccess(invadersObs.rolls[j][1],
                       CurrentAction(invadersObs.before.enemies[j].behavior).chance)

\* SpaceInvadersGame::new with EnemyPreset::RandomFire: 8 rows of enemies
EnemiesAtStart == 8 * ((invadersObs.size[1] \div 2) \div 7)

\* the enemies of the last tick that, where their evaluation left them, are
\* within the proximity radius of a bullet that flew on in bounds
ReachedEnemies ==
    {i \in 1..Len(invadersObs.evaluated) :
        \E bullet \in BulletsOfTick :
           /\ InBounds(Flown(bullet).position)
           /\ Compare(Flown(bullet).position, EvaluatedNow[i].position,
                      MORE_THAN_HALF_CELL)}

\* C39: the score plus the number of live enemies is the number of enemies
\* the game started with: a tick removes exactly the enemies a bullet has
\* reached and adds 1 to the score for each of them, however many bullets
\* reached it and whatever props were hit; an update without a tick removes
\* none and leaves the score.
C39_ScoreCountsEnemies ==
    /\ invaders.score + Len(invaders.enemies) = EnemiesAtStart
    /\ invadersObs.frames > 0 /\ invadersObs.ticked
          => /\ invaders.enemies =
                   Retain(EvaluatedNow, (1..Len(EvaluatedNow)) \ ReachedEnemies)
             /\ invaders.score =
                   invadersObs.before.score + FOR_ENEMY_SCORE * Cardinality(ReachedEnemies)
    /\ invadersObs.frames > 0 /\ ~invadersObs.ticked
          => /\ Len(invaders.enemies) = Len(invadersObs.before.enemies)
             /\ invaders.score = invadersObs.before.score

\* A tick in which two bullets, one in flight and one just fired, reached the
\* same enemy: the enemy is removed, one point is added and one of the two
\* bullets flies on.
C39_Witness ==
    /\ invadersObs.ticked
    /\ \E k \in 1..Len(invadersObs.before.bullets), i \in 1..Len(invadersObs.evaluated) :
          /\ invadersObs.evaluated[i].fired
          /\ PushedBy(i) = invadersObs.before.bullets[k]
          /\ \E j \in ReachedEnemies :
                EvaluatedNow[j].position = Flown(PushedBy(i)).position
          /\ \E n \in 1..Len(invaders.bullets) : invaders.bullets[n] = Flown(PushedBy(i))
    /\ invaders.score = invadersObs.before.score + 1

\* A tick in which a bullet destroyed a prop and no enemy was reached.
C39_WitnessProp ==
    /\ invadersObs.ticked
    /\ Len(invaders.props) < Len(invadersObs.before.props)
    /\ ReachedEnemies = {}
    /\ invaders.score = invadersObs.before.score

\* the number of occupied cells of a board
Occupied(board) ==
    Cardinality({rc \in (0..(HEIGHT - 1)) \X (0..(WIDTH - 1)) : board[rc[1]][rc[2]] # None})

EmptyRow == [c \in 0..(WIDTH - 1) |-> None]

\* the board with the lines_in_row rows ending at base taken out, the rows
\* above them moved down and as many empty rows put on top
GroupTakenOut(board, base, lines_in_row) ==
    [r \in 0..(HEIGHT - 1) |->
        IF r < lines_in_row THEN EmptyRow
        ELSE IF r <= base THEN board[r - lines_in_row]
        ELSE board[r]]

\* C38: clearing a group of k full rows reduces the number of occupied cells
\* of the board by exactly k x WIDTH: after the shift the top k rows are
\* empty and every row above the group is found once, k rows further down.
C38_GroupRemoved ==
    tetrisObs.event # "Panic" =>
       \A i \in 1..Len(tetrisObs.groups) :
          LET g == tetrisObs.groups[i]
          IN  /\ Occupied(g.after) = Occupied(g.before) - g.lines_in_row * WIDTH
              /\ \A r \in 0..(g.lines_in_row - 1) : g.after[r] = EmptyRow
              /\ g.after = GroupTakenOut(g.before, g.base, g.lines_in_row)

\* A group of two rows cleared below empty top rows: the board loses twenty
\* cells.
C38_TakenOut ==
    /\ tetrisObs.event # "Panic"
    /\ \E i \in 1..Len(tetrisObs.groups) :
          LET g == tetrisObs.groups[i]
          IN  /\ g.lines_in_row = 2
              /\ \E r \in 0..(g.base - 2) : g.before[r] # EmptyRow
              /\ g.after = GroupTakenOut(g.before, g.base, 2)
              /\ Occupied(g.after) = Occupied(g.before) - 2 * WIDTH

\* A group of four rows cleared where the top four rows hold cells: they are
\* left as they were, two full rows of the group among them, and the board
\* loses fewer than forty cells.
C38_TopRowsLeft ==
    /\ tetrisObs.event # "Panic"
    /\ \E i \in 1..Len(tetrisObs.groups) :
          LET g == tetrisObs.groups[i]
          IN  /\ g.lines_in_row = 4
              /\ \A r \in 0..3 : g.after[r] = g.before[r]
              /\ \E r \in 0..3 : FullRow(g.after, r)
              /\ Occupied(g.after) > Occupied(g.before) - 4 * WIDTH

\* the grid cells of four points: (p.x.round(), p.y.round())
GridCells(points) == {<<Round(points[i].x), Round(points[i].y)>> : i \in 1..4}

====
